---- MODULE Spec2Model ----
(***************************************************************************)
(* A model of the mmap window cache of src/libsystemd/sd-journal/          *)
(* mmap-cache.c (production build, ENABLE_DEBUG_MMAP_CACHE off).           *)
(*                                                                         *)
(* Objects are records held in arrays indexed by slot: a Window pointer is *)
(* a slot index in windows, an MMapFileDescriptor pointer a slot index in  *)
(* files, and NULL is 0.  The intrusive lists (by_fd, unused, by_window)   *)
(* are sequences, head first.  The address space is a row of regions of    *)
(* RegionSpan bytes; a mapping occupies the start of one region.           *)
(*                                                                         *)
(* Every internal function is an operator from a heap record (all fields   *)
(* of the cache, its handles, windows, contexts and the address space) to  *)
(* the heap after the call; a public function is one action.               *)
(***************************************************************************)
EXTENDS Integers, Sequences, FiniteSets, TLC

----------------------------------------------------------------------------
(* Program constants *)

NULL == 0

\* errno values, returned negated
EIO == 5
ENOMEM == 12
EINVAL == 22
EADDRNOTAVAIL == 99

\* The soft floor of live windows.  The source has 64; the model scales it
\* down so that recycling (n_windows > WINDOWS_MIN) happens within
\* MaxWindows window records.
WINDOWS_MIN == 1

\* Number of context slots (the array bound of MMapCache.contexts).
MMAP_CACHE_MAX_CONTEXTS == 2

page_size == 4096

WINDOW_SIZE == 8 * 1024 * 1024

\* uint64_t and size_t arithmetic is modulo U64.  The width is scaled from
\* 2^64 to 2^30 so that sums stay inside TLC's integers; all offsets and
\* sizes of the model are far below it unless a wrap is intended.
U64 == 2^30

PROT_READ == 1
PROT_WRITE == 2

----------------------------------------------------------------------------
(* Bounds of the model *)

\* Window records the allocator can hand out; new(Window) fails beyond.
MaxWindows == 3
\* MMapFileDescriptor records the allocator can hand out.
MaxHandles == 2
\* File descriptor numbers 0 .. NumFds-1.
NumFds == 2
\* Address-space regions; mmap fails with ENOMEM when none is free.
NumRegions == 4
\* Capacity of the SIGBUS queue.
MaxQueue == 2
\* Caps of the statistics counters (get is not called once n_missed or the
\* sum of the two hit counters has reached its cap), for each
\* specification: Spec, SpecBus, SpecHint, SpecRef, SpecLru, SpecMem.
MaxMissed == 3
MaxHits == 2
MaxMissedBus == 2
MaxHitsBus == 1
MaxMissedHint == 3
MaxHitsHint == 2
MaxMissedRef == 2
MaxHitsRef == 1
MaxMissedLru == 3
MaxHitsLru == 2
MaxMissedMem == 3
MaxHitsMem == 2
\* Cap of the reference count.
MaxRef == 2
MaxMissedStat == 2
MaxHitsStat == 1
MaxMissedMatch == 2
MaxHitsMatch == 1
MaxMissedAll == 3
MaxHitsAll == 1
MaxMissedWin == 1
MaxHitsWin == 1

WindowIds == 1..MaxWindows
HandleIds == 1..MaxHandles
Fds == 0..(NumFds - 1)
ContextIds == 0..(MMAP_CACHE_MAX_CONTEXTS - 1)
Regions == 1..NumRegions
RegionSpan == 2^24

\* An address of a mapping that no window of this cache ever has: a page of
\* another cache (or of any other user of the process-wide SIGBUS queue).
ForeignAddr == (NumRegions + 1) * RegionSpan

----------------------------------------------------------------------------
(* State *)

VARIABLES
    windows,      \* [WindowIds -> Window record]
    files,        \* [HandleIds -> MMapFileDescriptor record]
    contexts,     \* MMapCache.contexts: [ContextIds -> Context record]
    fds,          \* MMapCache.fds: [Fds -> NULL or handle]
    unused,       \* MMapCache.unused: the list, head first
    last_unused,  \* MMapCache.last_unused
    n_windows,    \* MMapCache.n_windows
    n_context_cache_hit, n_window_list_hit, n_missed,
    n_ref,        \* MMapCache.n_ref; 0 once the cache is freed
    mem,          \* the address space: [Regions -> mapping]
    bad_munmap,   \* number of munmap calls on a range that was not mapped
    queue,        \* the process-wide SIGBUS queue (addresses)
    aborted,      \* abort() was called
    attributed,   \* history: handles a drained address was found in
    last          \* the last public call and what it returned

vars == <<windows, files, contexts, fds, unused, last_unused, n_windows,
          n_context_cache_hit, n_window_list_hit, n_missed, n_ref, mem,
          bad_munmap, queue, aborted, attributed, last>>

\* A free Window record
NoWindow == [live |-> FALSE, invalidated |-> FALSE, keep_always |-> FALSE,
             in_unused |-> FALSE, ptr |-> NULL, offset |-> 0, size |-> 0,
             fd |-> NULL, contexts |-> <<>>]

\* An empty slot of MMapCache.contexts (the pointer is NULL)
NoContext == [live |-> FALSE, id |-> 0, window |-> NULL]

\* A free MMapFileDescriptor record
NoFile == [live |-> FALSE, fd |-> 0, prot |-> 0, sigbus |-> FALSE,
           windows |-> <<>>]

\* An unmapped region
NoMapping == [kind |-> "none", size |-> 0]

Heap == [windows |-> windows, files |-> files, contexts |-> contexts,
         fds |-> fds, unused |-> unused, last_unused |-> last_unused,
         n_windows |-> n_windows,
         n_context_cache_hit |-> n_context_cache_hit,
         n_window_list_hit |-> n_window_list_hit, n_missed |-> n_missed,
         n_ref |-> n_ref, mem |-> mem, bad_munmap |-> bad_munmap,
         queue |-> queue, aborted |-> aborted, attributed |-> attributed]

\* The variables take the fields of heap H, and last becomes l.
Store(H, l) ==
    /\ windows' = H.windows
    /\ files' = H.files
    /\ contexts' = H.contexts
    /\ fds' = H.fds
    /\ unused' = H.unused
    /\ last_unused' = H.last_unused
    /\ n_windows' = H.n_windows
    /\ n_context_cache_hit' = H.n_context_cache_hit
    /\ n_window_list_hit' = H.n_window_list_hit
    /\ n_missed' = H.n_missed
    /\ n_ref' = H.n_ref
    /\ mem' = H.mem
    /\ bad_munmap' = H.bad_munmap
    /\ queue' = H.queue
    /\ aborted' = H.aborted
    /\ attributed' = H.attributed
    /\ last' = l

----------------------------------------------------------------------------
(* Notation *)

\* Op applied to the value v: a local variable of the C code that is
\* assigned once and read several times.
With(v, Op(_)) == Op(v)

----------------------------------------------------------------------------
(* list.h *)

LIST_PREPEND(list, item) == <<item>> \o list

LIST_REMOVE(list, item) == SelectSeq(list, LAMBDA x : x # item)

Contains(list, item) == \E i \in 1..Len(list) : list[i] = item

IndexOf(list, item) == CHOOSE i \in 1..Len(list) : list[i] = item

\* w->unused_prev: the predecessor of w on the unused list.  The links of
\* an item that is on no list are NULL (LIST_REMOVE resets them, and
\* window_add's compound literal zeroes them).
unused_prev(H, w) ==
    IF Contains(H.unused, w) /\ IndexOf(H.unused, w) > 1
    THEN H.unused[IndexOf(H.unused, w) - 1]
    ELSE NULL

----------------------------------------------------------------------------
(* The address space *)

RegionOf(ptr) == ptr \div RegionSpan

\* munmap(ptr, size)
munmap(H, ptr, size) ==
    IF RegionOf(ptr) \in Regions /\ H.mem[RegionOf(ptr)].kind # "none"
    THEN [H EXCEPT !.mem[RegionOf(ptr)] = NoMapping]
    ELSE [H EXCEPT !.bad_munmap = @ + 1]

FreeRegions(H) == {r \in Regions : H.mem[r].kind = "none"}

----------------------------------------------------------------------------
(* Windows *)

\* window_unlink without its last loop: the contexts of the window keep
\* their pointer to it.
window_unlink_keep_contexts(H, w) ==
    With(H.windows[w], LAMBDA W :
    With(IF W.ptr # NULL THEN munmap(H, W.ptr, W.size) ELSE H, LAMBDA H1 :
    With(IF W.fd # NULL
         THEN [H1 EXCEPT !.files[W.fd].windows = LIST_REMOVE(@, w)]
         ELSE H1, LAMBDA H2 :
    IF W.in_unused
    THEN [H2 EXCEPT
            !.last_unused = IF @ = w THEN unused_prev(H2, w) ELSE @,
            !.unused = LIST_REMOVE(@, w)]
    ELSE H2)))

window_unlink(H, w) ==
    With(H.windows[w], LAMBDA W :
    With(IF W.ptr # NULL THEN munmap(H, W.ptr, W.size) ELSE H, LAMBDA H1 :
    With(IF W.fd # NULL
         THEN [H1 EXCEPT !.files[W.fd].windows = LIST_REMOVE(@, w)]
         ELSE H1, LAMBDA H2 :
    With(IF W.in_unused
         THEN [H2 EXCEPT
                 !.last_unused = IF @ = w THEN unused_prev(H2, w) ELSE @,
                 !.unused = LIST_REMOVE(@, w)]
         ELSE H2, LAMBDA H3 :
    [H3 EXCEPT !.contexts =
        [c \in ContextIds |->
            IF Contains(W.contexts, c) THEN [@[c] EXCEPT !.window = NULL]
            ELSE @[c]]]))))

\* window_free without the decrement of n_windows
window_free_no_decrement(H, w) ==
    [window_unlink(H, w) EXCEPT !.windows[w] = NoWindow]

window_free(H, w) ==
    [window_unlink(H, w) EXCEPT !.n_windows = @ - 1, !.windows[w] = NoWindow]

window_matches(W, offset, size) ==
    /\ offset >= W.offset
    /\ (offset + size) % U64 <= (W.offset + W.size) % U64

window_matches_fd(W, f, offset, size) ==
    /\ W.fd = f
    /\ window_matches(W, offset, size)

FreeWindowSlots(H) == {w \in WindowIds : ~H.windows[w].live}

\* The Window record window_add fills in
NewWindow(f, keep_always, offset, size, ptr) ==
    [live |-> TRUE, invalidated |-> FALSE, keep_always |-> keep_always,
     in_unused |-> FALSE, ptr |-> ptr, offset |-> offset, size |-> size,
     fd |-> f, contexts |-> <<>>]

\* window_add reusing last_unused without window_unlink
window_add_recycle_no_unlink(H, f, keep_always, offset, size, ptr, oom) ==
    IF H.last_unused = NULL \/ H.n_windows <= WINDOWS_MIN
    THEN IF oom \/ FreeWindowSlots(H) = {}
         THEN [heap |-> H, w |-> NULL]
         ELSE With(CHOOSE x \in FreeWindowSlots(H) :
                       \A y \in FreeWindowSlots(H) : x <= y, LAMBDA w :
              [heap |-> [H EXCEPT
                           !.n_windows = @ + 1,
                           !.windows[w] =
                               NewWindow(f, keep_always, offset, size, ptr),
                           !.files[f].windows = LIST_PREPEND(@, w)],
               w |-> w])
    ELSE \* reuse an existing one
         [heap |-> [H EXCEPT
                      !.windows[H.last_unused] =
                          NewWindow(f, keep_always, offset, size, ptr),
                      !.files[f].windows = LIST_PREPEND(@, H.last_unused)],
          w |-> H.last_unused]

\* window_add recycling as soon as the live count has reached WINDOWS_MIN
window_add_recycle_at_floor(H, f, keep_always, offset, size, ptr, oom) ==
    IF H.last_unused = NULL \/ H.n_windows < WINDOWS_MIN
    THEN IF oom \/ FreeWindowSlots(H) = {}
         THEN [heap |-> H, w |-> NULL]
         ELSE With(CHOOSE x \in FreeWindowSlots(H) :
                       \A y \in FreeWindowSlots(H) : x <= y, LAMBDA w :
              [heap |-> [H EXCEPT
                           !.n_windows = @ + 1,
                           !.windows[w] =
                               NewWindow(f, keep_always, offset, size, ptr),
                           !.files[f].windows = LIST_PREPEND(@, w)],
               w |-> w])
    ELSE \* reuse an existing one
         [heap |-> [window_unlink(H, H.last_unused) EXCEPT
                      !.windows[H.last_unused] =
                          NewWindow(f, keep_always, offset, size, ptr),
                      !.files[f].windows = LIST_PREPEND(@, H.last_unused)],
          w |-> H.last_unused]

\* window_add: the heap after the call and the window (NULL: out of memory).
\* new(Window) fails when oom says so or no record is left.
window_add(H, f, keep_always, offset, size, ptr, oom) ==
    IF H.last_unused = NULL \/ H.n_windows <= WINDOWS_MIN
    THEN IF oom \/ FreeWindowSlots(H) = {}
         THEN [heap |-> H, w |-> NULL]
         ELSE With(CHOOSE x \in FreeWindowSlots(H) :
                       \A y \in FreeWindowSlots(H) : x <= y, LAMBDA w :
              [heap |-> [H EXCEPT
                           !.n_windows = @ + 1,
                           !.windows[w] =
                               NewWindow(f, keep_always, offset, size, ptr),
                           !.files[f].windows = LIST_PREPEND(@, w)],
               w |-> w])
    ELSE \* reuse an existing one
         [heap |-> [window_unlink(H, H.last_unused) EXCEPT
                      !.windows[H.last_unused] =
                          NewWindow(f, keep_always, offset, size, ptr),
                      !.files[f].windows = LIST_PREPEND(@, H.last_unused)],
          w |-> H.last_unused]

----------------------------------------------------------------------------
(* Contexts *)

\* context_detach_window without the test of keep_always: a pinned window
\* goes to the unused list once its last context leaves.
context_detach_window_unpinned(H, c) ==
    IF H.contexts[c].window = NULL THEN H
    ELSE With(H.contexts[c].window, LAMBDA w :
         With([H EXCEPT !.contexts[c].window = NULL,
                        !.windows[w].contexts = LIST_REMOVE(@, c)],
              LAMBDA H1 :
         IF H1.windows[w].contexts = <<>>
         THEN [H1 EXCEPT !.unused = LIST_PREPEND(@, w),
                         !.last_unused = IF @ = NULL THEN w ELSE @,
                         !.windows[w].in_unused = TRUE]
         ELSE H1))

\* context_detach_window leaving c on the list of contexts of the window
context_detach_window_keep_link(H, c) ==
    IF H.contexts[c].window = NULL THEN H
    ELSE With(H.contexts[c].window, LAMBDA w :
         With([H EXCEPT !.contexts[c].window = NULL],
              LAMBDA H1 :
         IF H1.windows[w].contexts = <<>> /\ ~H1.windows[w].keep_always
         THEN [H1 EXCEPT !.unused = LIST_PREPEND(@, w),
                         !.last_unused = IF @ = NULL THEN w ELSE @,
                         !.windows[w].in_unused = TRUE]
         ELSE H1))

context_detach_window(H, c) ==
    IF H.contexts[c].window = NULL THEN H
    ELSE With(H.contexts[c].window, LAMBDA w :
         With([H EXCEPT !.contexts[c].window = NULL,
                        !.windows[w].contexts = LIST_REMOVE(@, c)],
              LAMBDA H1 :
         IF H1.windows[w].contexts = <<>> /\ ~H1.windows[w].keep_always
         THEN [H1 EXCEPT !.unused = LIST_PREPEND(@, w),
                         !.last_unused = IF @ = NULL THEN w ELSE @,
                         !.windows[w].in_unused = TRUE]
         ELSE H1))

\* context_attach_window leaving last_unused on the window it takes off
\* the unused list
context_attach_window_keep_tail(H, c, w) ==
    IF H.contexts[c].window = w THEN H
    ELSE With(context_detach_window(H, c), LAMBDA H1 :
         With(IF H1.windows[w].in_unused
              THEN [H1 EXCEPT !.unused = LIST_REMOVE(@, w),
                              !.windows[w].in_unused = FALSE]
              ELSE H1, LAMBDA H3 :
         [H3 EXCEPT !.contexts[c].window = w,
                    !.windows[w].contexts = LIST_PREPEND(@, c)]))

\* context_attach_window leaving a window it attaches on the unused list
context_attach_window_keep_unused(H, c, w) ==
    IF H.contexts[c].window = w THEN H
    ELSE With(context_detach_window(H, c), LAMBDA H1 :
         [H1 EXCEPT !.contexts[c].window = w,
                    !.windows[w].contexts = LIST_PREPEND(@, c)])

context_attach_window(H, c, w) ==
    IF H.contexts[c].window = w THEN H
    ELSE With(context_detach_window(H, c), LAMBDA H1 :
         With(IF H1.windows[w].in_unused
              THEN \* LIST_REMOVE comes first, so w->unused_prev is read
                   \* off a window that is on no list any more
                   With([H1 EXCEPT !.unused = LIST_REMOVE(@, w)], LAMBDA H2 :
                   [H2 EXCEPT
                      !.last_unused = IF @ = w THEN unused_prev(H2, w) ELSE @,
                      !.windows[w].in_unused = FALSE])
              ELSE H1, LAMBDA H3 :
         [H3 EXCEPT !.contexts[c].window = w,
                    !.windows[w].contexts = LIST_PREPEND(@, c)]))

\* context_add: the heap after the call and whether a context is there
\* (FALSE: new0(Context) failed).
context_add(H, id, oom) ==
    IF H.contexts[id].live THEN [heap |-> H, ok |-> TRUE]
    ELSE IF oom THEN [heap |-> H, ok |-> FALSE]
    ELSE [heap |-> [H EXCEPT !.contexts[id] =
                        [live |-> TRUE, id |-> id, window |-> NULL]],
          ok |-> TRUE]

context_free(H, c) ==
    [context_detach_window(H, c) EXCEPT !.contexts[c] = NoContext]

----------------------------------------------------------------------------
(* The read path *)

\* What a step of the read path hands back: the heap, the return value r and
\* the pointer stored through ret (NULL when nothing was stored).
Out(H, r, p) == [heap |-> H, r |-> r, ret |-> p]

\* (uint8_t*) w->ptr + (offset - w->offset)
PtrInto(W, offset) == (W.ptr + ((offset - W.offset) % U64)) % U64

\* make_room reporting room without freeing the window
make_room_keep_window(H) ==
    IF H.last_unused = NULL THEN [heap |-> H, r |-> 0]
    ELSE [heap |-> H, r |-> 1]

make_room(H) ==
    IF H.last_unused = NULL THEN [heap |-> H, r |-> 0]
    ELSE [heap |-> window_free(H, H.last_unused), r |-> 1]

\* try_context storing the requested keep_always over the flag
try_context_overwrite_pin(H, f, context, keep_always, offset, size) ==
    IF ~H.contexts[context].live THEN Out(H, 0, NULL)
    ELSE IF H.contexts[context].window = NULL THEN Out(H, 0, NULL)
    ELSE With(H.contexts[context].window, LAMBDA w :
         IF ~window_matches_fd(H.windows[w], f, offset, size)
         THEN Out(context_detach_window(H, context), 0, NULL)
         ELSE IF H.files[H.windows[w].fd].sigbus THEN Out(H, -EIO, NULL)
         ELSE Out([H EXCEPT !.windows[w].keep_always = keep_always,
                            !.n_context_cache_hit = @ + 1],
                  1, PtrInto(H.windows[w], offset)))

\* try_context without the test of f->sigbus
try_context_unchecked(H, f, context, keep_always, offset, size) ==
    IF ~H.contexts[context].live THEN Out(H, 0, NULL)
    ELSE IF H.contexts[context].window = NULL THEN Out(H, 0, NULL)
    ELSE With(H.contexts[context].window, LAMBDA w :
         IF ~window_matches_fd(H.windows[w], f, offset, size)
         THEN Out(context_detach_window(H, context), 0, NULL)
         ELSE Out([H EXCEPT !.windows[w].keep_always = @ \/ keep_always,
                            !.n_context_cache_hit = @ + 1],
                  1, PtrInto(H.windows[w], offset)))

try_context(H, f, context, keep_always, offset, size) ==
    IF ~H.contexts[context].live THEN Out(H, 0, NULL)
    ELSE IF H.contexts[context].window = NULL THEN Out(H, 0, NULL)
    ELSE With(H.contexts[context].window, LAMBDA w :
         IF ~window_matches_fd(H.windows[w], f, offset, size)
         THEN Out(context_detach_window(H, context), 0, NULL)
         ELSE IF H.files[H.windows[w].fd].sigbus THEN Out(H, -EIO, NULL)
         ELSE Out([H EXCEPT !.windows[w].keep_always = @ \/ keep_always,
                            !.n_context_cache_hit = @ + 1],
                  1, PtrInto(H.windows[w], offset)))

\* LIST_FOREACH(by_fd, w, f->windows) if (window_matches(...)) break;
\* the first window of f's list that matches, or NULL
FirstMatch(H, f, offset, size) ==
    With({i \in 1..Len(H.files[f].windows) :
             window_matches(H.windows[H.files[f].windows[i]], offset, size)},
         LAMBDA hits :
         IF hits = {} THEN NULL
         ELSE H.files[f].windows[CHOOSE i \in hits : \A j \in hits : i <= j])

\* find_mmap without the test of f->sigbus
find_mmap_unchecked(H, f, context, keep_always, offset, size, oom) ==
    With(FirstMatch(H, f, offset, size), LAMBDA w :
         IF w = NULL THEN Out(H, 0, NULL)
         ELSE With(context_add(H, context, oom), LAMBDA ca :
              IF ~ca.ok THEN Out(H, -ENOMEM, NULL)
              ELSE With(context_attach_window(ca.heap, context, w),
                        LAMBDA H1 :
                   Out([H1 EXCEPT
                          !.windows[w].keep_always = @ \/ keep_always,
                          !.n_window_list_hit = @ + 1],
                       1, PtrInto(H1.windows[w], offset)))))

find_mmap(H, f, context, keep_always, offset, size, oom) ==
    IF H.files[f].sigbus THEN Out(H, -EIO, NULL)
    ELSE With(FirstMatch(H, f, offset, size), LAMBDA w :
         IF w = NULL THEN Out(H, 0, NULL)
         ELSE With(context_add(H, context, oom), LAMBDA ca :
              IF ~ca.ok THEN Out(H, -ENOMEM, NULL)
              ELSE With(context_attach_window(ca.heap, context, w),
                        LAMBDA H1 :
                   Out([H1 EXCEPT
                          !.windows[w].keep_always = @ \/ keep_always,
                          !.n_window_list_hit = @ + 1],
                       1, PtrInto(H1.windows[w], offset)))))

\* mmap(NULL, size, f->prot, MAP_SHARED, f->fd, offset) in its retry loop.
\* The kernel's answers are the input mm: "ok" (every attempt succeeds),
\* "enomem1" (the first attempt fails with ENOMEM, the next succeeds),
\* "enomem" (every attempt fails with ENOMEM) or "fail" (the first attempt
\* fails with another errno).  With no free region an attempt fails with
\* ENOMEM whatever mm says.  A mapping is placed in the lowest free region:
\* regions are interchangeable, and both the reuse of an address unmapped
\* before and a fresh address occur.
RECURSIVE mmap_try_harder(_, _, _, _, _)
mmap_try_harder(H, f, offset, size, mm) ==
    IF mm \in {"enomem1", "enomem"} \/ (mm = "ok" /\ FreeRegions(H) = {})
    THEN With(make_room(H), LAMBDA mr :
         IF mr.r = 0
         THEN [heap |-> H, r |-> -ENOMEM, ptr |-> NULL]
         ELSE mmap_try_harder(mr.heap, f, offset, size,
                              IF mm = "enomem1" THEN "ok" ELSE mm))
    ELSE IF mm # "ok"
    THEN [heap |-> H, r |-> -EINVAL, ptr |-> NULL]
    ELSE With(CHOOSE x \in FreeRegions(H) : \A y \in FreeRegions(H) : x <= y,
              LAMBDA region :
         [heap |-> [H EXCEPT !.mem[region] = [kind |-> "file", size |-> size]],
          r |-> 0, ptr |-> region * RegionSpan])

PAGE_ALIGN(l) == (((l + page_size - 1) \div page_size) * page_size) % U64

\* add_mmap up to the expansion to WINDOW_SIZE: woffset and wsize of a
\* request before the file size is looked at.
WindowFor(offset, size) ==
    With(offset - (offset % page_size), LAMBDA woffset :
    With(PAGE_ALIGN((size + (offset - woffset)) % U64), LAMBDA wsize :
    IF wsize < WINDOW_SIZE
    THEN With(PAGE_ALIGN((WINDOW_SIZE - wsize) \div 2), LAMBDA delta :
         [woffset |-> IF delta > offset THEN 0 ELSE (woffset - delta) % U64,
          wsize |-> WINDOW_SIZE])
    ELSE [woffset |-> woffset, wsize |-> wsize]))

\* The clamp without the test of woffset against the file size
ClampToFile_unchecked(g, st) ==
    IF st = <<>> THEN [r |-> 0, woffset |-> g.woffset, wsize |-> g.wsize]
    ELSE IF (g.woffset + g.wsize) % U64 > st[1]
         THEN [r |-> 0, woffset |-> g.woffset,
               wsize |-> PAGE_ALIGN((st[1] - g.woffset) % U64)]
    ELSE [r |-> 0, woffset |-> g.woffset, wsize |-> g.wsize]

\* The clamp to the file size: st is <<>> for a NULL stat pointer and
\* <<st_size>> otherwise.  r < 0 is the error returned.
ClampToFile(g, st) ==
    IF st = <<>> THEN [r |-> 0, woffset |-> g.woffset, wsize |-> g.wsize]
    ELSE IF g.woffset >= st[1]
         THEN [r |-> -EADDRNOTAVAIL, woffset |-> g.woffset, wsize |-> g.wsize]
    ELSE IF (g.woffset + g.wsize) % U64 > st[1]
         THEN [r |-> 0, woffset |-> g.woffset,
               wsize |-> PAGE_ALIGN((st[1] - g.woffset) % U64)]
    ELSE [r |-> 0, woffset |-> g.woffset, wsize |-> g.wsize]

\* add_mmap without the munmap under its outofmem label
add_mmap_leak(H, f, context, keep_always, offset, size, st, env) ==
    With(ClampToFile(WindowFor(offset, size), st), LAMBDA g :
    IF g.r < 0 THEN Out(H, g.r, NULL)
    ELSE
    With(mmap_try_harder(H, f, g.woffset, g.wsize, env.mm), LAMBDA d :
    IF d.r < 0 THEN Out(d.heap, d.r, NULL)
    ELSE
    With(context_add(d.heap, context, env.oom = "context"), LAMBDA ca :
    IF ~ca.ok
    THEN Out(d.heap, -ENOMEM, NULL)
    ELSE
    With(window_add(ca.heap, f, keep_always, g.woffset, g.wsize, d.ptr,
                    env.oom = "window"), LAMBDA wa :
    IF wa.w = NULL
    THEN Out(wa.heap, -ENOMEM, NULL)
    ELSE
    With(context_attach_window(wa.heap, context, wa.w), LAMBDA H1 :
    Out(H1, 1, PtrInto(H1.windows[wa.w], offset)))))))

\* env: the answers of the kernel and the allocator during this call,
\* [mm, oom]: mm as in mmap_try_harder, oom the allocation that fails
\* ("none", "context": new0(Context), "window": new(Window)).
add_mmap(H, f, context, keep_always, offset, size, st, env) ==
    With(ClampToFile(WindowFor(offset, size), st), LAMBDA g :
    IF g.r < 0 THEN Out(H, g.r, NULL)
    ELSE
    With(mmap_try_harder(H, f, g.woffset, g.wsize, env.mm), LAMBDA d :
    IF d.r < 0 THEN Out(d.heap, d.r, NULL)
    ELSE
    With(context_add(d.heap, context, env.oom = "context"), LAMBDA ca :
    IF ~ca.ok
    THEN Out(munmap(d.heap, d.ptr, g.wsize), -ENOMEM, NULL)
    ELSE
    With(window_add(ca.heap, f, keep_always, g.woffset, g.wsize, d.ptr,
                    env.oom = "window"), LAMBDA wa :
    IF wa.w = NULL
    THEN Out(munmap(wa.heap, d.ptr, g.wsize), -ENOMEM, NULL)
    ELSE
    With(context_attach_window(wa.heap, context, wa.w), LAMBDA H1 :
    Out(H1, 1, PtrInto(H1.windows[wa.w], offset)))))))

\* mmap_cache_fd_get without the look at the context's own window
mmap_cache_fd_get_no_context(H, f, context, keep_always, offset, size, st, env) ==
    With(find_mmap(H, f, context, keep_always, offset, size,
                   env.oom = "context"), LAMBDA fm :
    IF fm.r # 0
    THEN [heap |-> fm.heap, r |-> fm.r, ret |-> fm.ret, path |-> "list"]
    ELSE
    With(add_mmap([fm.heap EXCEPT !.n_missed = @ + 1], f, context,
                  keep_always, offset, size, st, env), LAMBDA am :
    [heap |-> am.heap, r |-> am.r, ret |-> am.ret, path |-> "alloc"]))

\* mmap_cache_fd_get counting the miss before it scans the window list
mmap_cache_fd_get_count_first(H, f, context, keep_always, offset, size, st, env) ==
    With(try_context(H, f, context, keep_always, offset, size), LAMBDA tc :
    IF tc.r # 0
    THEN [heap |-> tc.heap, r |-> tc.r, ret |-> tc.ret, path |-> "context"]
    ELSE
    With(find_mmap([tc.heap EXCEPT !.n_missed = @ + 1], f, context,
                   keep_always, offset, size, env.oom = "context"), LAMBDA fm :
    IF fm.r # 0
    THEN [heap |-> fm.heap, r |-> fm.r, ret |-> fm.ret, path |-> "list"]
    ELSE
    With(add_mmap(fm.heap, f, context, keep_always, offset, size, st, env),
         LAMBDA am :
    [heap |-> am.heap, r |-> am.r, ret |-> am.ret, path |-> "alloc"])))

\* mmap_cache_fd_get counting a miss only when add_mmap has succeeded
mmap_cache_fd_get_count_success(H, f, context, keep_always, offset, size, st, env) ==
    With(try_context(H, f, context, keep_always, offset, size), LAMBDA tc :
    IF tc.r # 0
    THEN [heap |-> tc.heap, r |-> tc.r, ret |-> tc.ret, path |-> "context"]
    ELSE
    With(find_mmap(tc.heap, f, context, keep_always, offset, size,
                   env.oom = "context"), LAMBDA fm :
    IF fm.r # 0
    THEN [heap |-> fm.heap, r |-> fm.r, ret |-> fm.ret, path |-> "list"]
    ELSE
    With(add_mmap(fm.heap, f, context, keep_always, offset, size, st, env),
         LAMBDA am :
    [heap |-> IF am.r < 0 THEN am.heap
              ELSE [am.heap EXCEPT !.n_missed = @ + 1],
     r |-> am.r, ret |-> am.ret, path |-> "alloc"])))

\* mmap_cache_fd_get: heap, return value, pointer, and the path that
\* answered ("context", "list" or "alloc").
mmap_cache_fd_get(H, f, context, keep_always, offset, size, st, env) ==
    With(try_context(H, f, context, keep_always, offset, size), LAMBDA tc :
    IF tc.r # 0
    THEN [heap |-> tc.heap, r |-> tc.r, ret |-> tc.ret, path |-> "context"]
    ELSE
    With(find_mmap(tc.heap, f, context, keep_always, offset, size,
                   env.oom = "context"), LAMBDA fm :
    IF fm.r # 0
    THEN [heap |-> fm.heap, r |-> fm.r, ret |-> fm.ret, path |-> "list"]
    ELSE
    With(add_mmap([fm.heap EXCEPT !.n_missed = @ + 1], f, context,
                  keep_always, offset, size, st, env), LAMBDA am :
    [heap |-> am.heap, r |-> am.r, ret |-> am.ret, path |-> "alloc"])))

----------------------------------------------------------------------------
(* SIGBUS handling *)

\* The handles in the hashmap m->fds
Registered(H) == {H.fds[k] : k \in Fds} \ {NULL}

\* addr lies in [w->ptr, w->ptr + w->size) of window record W
InWindow(W, addr) == addr >= W.ptr /\ addr < W.ptr + W.size

\* The handles with a window on their list whose range holds addr
Owners(H, addr) ==
    {f \in Registered(H) :
        \E i \in 1..Len(H.files[f].windows) :
            InWindow(H.windows[H.files[f].windows[i]], addr)}

\* The first loop of mmap_cache_process_sigbus: pop until the queue is
\* empty, mark the file of each address, abort on an address of no window.
\* pop_error: sigbus_pop reports an error on its first call.  The handle
\* marked is the first one HASHMAP_FOREACH comes to; the order of the table
\* is not specified.
RECURSIVE DrainQueue(_, _, _)
DrainQueue(H, found, pop_error) ==
    IF pop_error THEN [heap |-> [H EXCEPT !.aborted = TRUE], found |-> found]
    ELSE IF H.queue = <<>> THEN [heap |-> H, found |-> found]
    ELSE With(Owners(H, Head(H.queue)), LAMBDA own :
         IF own = {}
         THEN [heap |-> [H EXCEPT !.queue = Tail(@), !.aborted = TRUE],
               found |-> found]
         ELSE With(CHOOSE x \in own : TRUE, LAMBDA f :
              DrainQueue([H EXCEPT !.queue = Tail(@),
                                   !.files[f].sigbus = TRUE,
                                   !.attributed = @ \cup own],
                         TRUE, FALSE)))

\* The windows window_invalidate has to remap: those on the list of a
\* registered handle with sigbus set that are not invalidated yet
ToInvalidate(H) ==
    {w \in WindowIds :
        /\ H.windows[w].live
        /\ ~H.windows[w].invalidated
        /\ H.windows[w].fd \in Registered(H)
        /\ H.files[H.windows[w].fd].sigbus
        /\ Contains(H.files[H.windows[w].fd].windows, w)}

\* window_invalidate on every window of ToInvalidate: the range becomes
\* anonymous memory at the same address
InvalidateAll(H) ==
    [H EXCEPT
       !.windows = [w \in WindowIds |->
                       IF w \in ToInvalidate(H)
                       THEN [@[w] EXCEPT !.invalidated = TRUE] ELSE @[w]],
       !.mem = [r \in Regions |->
                   IF \E w \in ToInvalidate(H) :
                          RegionOf(H.windows[w].ptr) = r
                   THEN [@[r] EXCEPT !.kind = "anon"] ELSE @[r]]]

\* mmap_cache_process_sigbus without its second loop: no window is remapped
mmap_cache_process_sigbus_no_invalidate(H, pop_error, remap_ok) ==
    DrainQueue(H, FALSE, pop_error).heap

\* mmap_cache_process_sigbus with a window_invalidate that ignores the
\* result of mmap: a failed remap leaves the window as it is
mmap_cache_process_sigbus_ignore_remap(H, pop_error, remap_ok) ==
    With(DrainQueue(H, FALSE, pop_error), LAMBDA d :
    IF d.heap.aborted \/ ~d.found THEN d.heap
    ELSE IF ~remap_ok THEN d.heap
    ELSE InvalidateAll(d.heap))

\* mmap_cache_process_sigbus whose second loop does not skip the handles
\* without sigbus: every window of every registered handle is remapped
mmap_cache_process_sigbus_invalidate_all(H, pop_error, remap_ok) ==
    With(DrainQueue(H, FALSE, pop_error), LAMBDA d :
    IF d.heap.aborted \/ ~d.found THEN d.heap
    ELSE IF ~remap_ok THEN [d.heap EXCEPT !.aborted = TRUE]
    ELSE With({w \in WindowIds :
                  /\ d.heap.windows[w].live
                  /\ ~d.heap.windows[w].invalidated
                  /\ d.heap.windows[w].fd \in Registered(d.heap)}, LAMBDA ws :
         [d.heap EXCEPT
            !.windows = [w \in WindowIds |->
                            IF w \in ws
                            THEN [@[w] EXCEPT !.invalidated = TRUE] ELSE @[w]],
            !.mem = [r \in Regions |->
                        IF \E w \in ws : RegionOf(d.heap.windows[w].ptr) = r
                        THEN [@[r] EXCEPT !.kind = "anon"] ELSE @[r]]]))

\* remap_ok: the MAP_FIXED mmap of window_invalidate succeeds (assert_se
\* aborts otherwise).
mmap_cache_process_sigbus(H, pop_error, remap_ok) ==
    With(DrainQueue(H, FALSE, pop_error), LAMBDA d :
    IF d.heap.aborted \/ ~d.found THEN d.heap
    ELSE IF ToInvalidate(d.heap) # {} /\ ~remap_ok
         THEN [d.heap EXCEPT !.aborted = TRUE]
    ELSE InvalidateAll(d.heap))

----------------------------------------------------------------------------
(* Handles *)

FreeHandleSlots(H) == {h \in HandleIds : ~H.files[h].live}

\* mmap_cache_add_fd without the lookup of fd in m->fds
mmap_cache_add_fd_nolookup(H, fd, prot, oom) ==
    IF oom \/ FreeHandleSlots(H) = {} THEN [heap |-> H, f |-> NULL]
    ELSE With(CHOOSE x \in FreeHandleSlots(H) :
                  \A y \in FreeHandleSlots(H) : x <= y, LAMBDA f :
         [heap |-> [H EXCEPT !.files[f] = [live |-> TRUE, fd |-> fd,
                                          prot |-> prot, sigbus |-> FALSE,
                                          windows |-> <<>>],
                             !.fds[fd] = f,
                             !.attributed = @ \ {f}],
          f |-> f])

\* mmap_cache_add_fd: the heap and the handle returned (NULL: out of memory)
mmap_cache_add_fd(H, fd, prot, oom) ==
    IF H.fds[fd] # NULL THEN [heap |-> H, f |-> H.fds[fd]]
    ELSE IF oom \/ FreeHandleSlots(H) = {} THEN [heap |-> H, f |-> NULL]
    ELSE With(CHOOSE x \in FreeHandleSlots(H) :
                  \A y \in FreeHandleSlots(H) : x <= y, LAMBDA f :
         [heap |-> [H EXCEPT !.files[f] = [live |-> TRUE, fd |-> fd,
                                          prot |-> prot, sigbus |-> FALSE,
                                          windows |-> <<>>],
                             !.fds[fd] = f,
                             !.attributed = @ \ {f}],
          f |-> f])

\* while (f->windows) window_free(f->windows)
RECURSIVE FreeWindowsOf(_, _)
FreeWindowsOf(H, f) ==
    IF H.files[f].windows = <<>> THEN H
    ELSE FreeWindowsOf(window_free(H, Head(H.files[f].windows)), f)

\* mmap_cache_fd_free freeing the windows of f before it drains the queue
mmap_cache_fd_free_unmap_first(H, f, pop_error, remap_ok) ==
    With(mmap_cache_process_sigbus(FreeWindowsOf(H, f), pop_error, remap_ok),
         LAMBDA H1 :
    IF H1.aborted THEN H1
    ELSE [H1 EXCEPT !.fds[H.files[f].fd] = NULL, !.files[f] = NoFile])

mmap_cache_fd_free(H, f, pop_error, remap_ok) ==
    With(mmap_cache_process_sigbus(H, pop_error, remap_ok), LAMBDA H1 :
    IF H1.aborted THEN H1
    ELSE [FreeWindowsOf(H1, f) EXCEPT !.fds[H.files[f].fd] = NULL,
                                      !.files[f] = NoFile])

----------------------------------------------------------------------------
(* The cache *)

\* for (i = 0; i < MMAP_CACHE_MAX_CONTEXTS; i++) context_free from slot i on
RECURSIVE FreeContextsFrom(_, _)
FreeContextsFrom(H, i) ==
    IF i >= MMAP_CACHE_MAX_CONTEXTS THEN H
    ELSE FreeContextsFrom(IF H.contexts[i].live THEN context_free(H, i) ELSE H,
                          i + 1)

\* hashmap_free(m->fds): the table goes.  m->fds was allocated without hash
\* ops (hashmap_ensure_allocated(&m->fds, NULL)), and no function of this
\* file that frees a handle or a window is handed to the table, so nothing
\* runs on the values: the handles stay allocated, with their window lists.
hashmap_free(H) == [H EXCEPT !.fds = [k \in Fds |-> NULL]]

\* while (m->unused) window_free(m->unused)
RECURSIVE FreeUnused(_)
FreeUnused(H) ==
    IF H.unused = <<>> THEN H
    ELSE FreeUnused(window_free(H, Head(H.unused)))

mmap_cache_free(H) ==
    FreeUnused(hashmap_free(FreeContextsFrom(H, 0)))

mmap_cache_ref(H) == [H EXCEPT !.n_ref = @ + 1]

mmap_cache_unref(H) ==
    IF H.n_ref - 1 > 0 THEN [H EXCEPT !.n_ref = @ - 1]
    ELSE mmap_cache_free([H EXCEPT !.n_ref = @ - 1])

----------------------------------------------------------------------------
(* The public calls *)

\* The record of a call: its arguments, the answers of the environment and
\* what it returned.
NoCall == [op |-> "new", f |-> NULL, fd |-> 0, context |-> 0,
           offset |-> 0, size |-> 0, st |-> <<>>,
           r |-> 0, ret |-> NULL, path |-> "none",
           pop_error |-> FALSE, remap_ok |-> TRUE, queued |-> 0]

Alive == n_ref > 0 /\ ~aborted

\* mmap_cache_add_fd(m, fd, prot)
AddFd(fd, prot, oom) ==
    /\ Alive
    /\ With(mmap_cache_add_fd(Heap, fd, prot, oom), LAMBDA a :
       Store(a.heap, [NoCall EXCEPT !.op = "add_fd", !.fd = fd, !.f = a.f]))

\* mmap_cache_fd_get(f, context, keep_always, offset, size, st, &ret)
Get(f, context, keep_always, offset, size, st, env) ==
    /\ Alive
    /\ files[f].live
    /\ With(mmap_cache_fd_get(Heap, f, context, keep_always, offset, size,
                              st, env), LAMBDA g :
       Store(g.heap, [NoCall EXCEPT !.op = "get", !.f = f,
                                    !.context = context,
                                    !.offset = offset, !.size = size,
                                    !.st = st, !.r = g.r, !.ret = g.ret,
                                    !.path = g.path]))

\* mmap_cache_fd_get as above; the record of the call also keeps
\* keep_always and the answers of the environment.
GetTraced(f, context, keep_always, offset, size, st, env) ==
    /\ Alive
    /\ files[f].live
    /\ With(mmap_cache_fd_get(Heap, f, context, keep_always, offset, size,
                              st, env), LAMBDA g :
       Store(g.heap, [NoCall EXCEPT !.op = "get", !.f = f,
                                    !.context = context,
                                    !.offset = offset, !.size = size,
                                    !.st = st, !.r = g.r, !.ret = g.ret,
                                    !.path = g.path]
                     @@ [keep_always |-> keep_always,
                         mm |-> env.mm, oom |-> env.oom]))

\* mmap_cache_fd_got_sigbus(f)
GotSigbus(f, pop_error, remap_ok) ==
    /\ Alive
    /\ files[f].live
    /\ With(mmap_cache_process_sigbus(Heap, pop_error, remap_ok), LAMBDA H1 :
       Store(H1, [NoCall EXCEPT !.op = "got_sigbus", !.f = f,
                                !.r = IF H1.files[f].sigbus THEN 1 ELSE 0,
                                !.pop_error = pop_error,
                                !.remap_ok = remap_ok]))

\* mmap_cache_fd_free(f); the record of the call keeps the length of the
\* queue the call found
FdFree(f, pop_error, remap_ok) ==
    /\ Alive
    /\ files[f].live
    /\ Store(mmap_cache_fd_free(Heap, f, pop_error, remap_ok),
             [NoCall EXCEPT !.op = "fd_free", !.f = f,
                            !.pop_error = pop_error, !.remap_ok = remap_ok,
                            !.queued = Len(queue)])

\* mmap_cache_ref(m)
Ref ==
    /\ Alive
    /\ n_ref < MaxRef
    /\ Store(mmap_cache_ref(Heap), [NoCall EXCEPT !.op = "ref"])

\* mmap_cache_unref(m)
Unref ==
    /\ Alive
    /\ Store(mmap_cache_unref(Heap), [NoCall EXCEPT !.op = "unref"])

\* The addresses a SIGBUS can be raised for: the last byte of a file
\* mapping of this cache, and a page of somebody else.
FaultAddrs ==
    {windows[w].ptr + windows[w].size - 1 :
        w \in {x \in WindowIds : windows[x].live /\ ~windows[x].invalidated}}
    \cup {ForeignAddr}

\* The SIGBUS handler: the faulting address is queued.
Sigbus(addr) ==
    /\ Alive
    /\ Len(queue) < MaxQueue
    /\ Store([Heap EXCEPT !.queue = Append(@, addr)],
             [NoCall EXCEPT !.op = "sigbus", !.ret = addr])

----------------------------------------------------------------------------
(* The specifications *)

\* The statistics counters are below their caps
StatsBelow(missed, hits) ==
    /\ n_missed < missed
    /\ n_context_cache_hit + n_window_list_hit < hits

Prots == {PROT_READ, PROT_READ + PROT_WRITE}

\* Requests <<offset, size, st>> of the read path, st = <<>> for no stat
Requests ==
    { <<0, 10, <<>>>>,            \* the head of the file
      <<20000000, 10, <<>>>> }    \* a second window

\* Requests on a file of 100 bytes whose size the caller passes
HintRequests ==
    { <<50, 10, <<100>>>>,        \* inside the file
      <<200, 10, <<100>>>>,       \* past its end, in its first page
      <<5000, 10, <<100>>>>,      \* past its end, in its second page
      <<20000000, 10, <<100>>>>,  \* far past its end
      <<5000, 10, <<>>>> }        \* the second page, no size passed

Envs ==
    {e \in [mm : {"ok", "enomem1", "enomem", "fail"},
            oom : {"none", "context", "window"}] :
        e.oom # "none" => e.mm = "ok"}

EnvOk == [mm |-> "ok", oom |-> "none"]

\* mmap succeeds at once, or after one ENOMEM
EnvsMapped == {EnvOk, [mm |-> "enomem1", oom |-> "none"]}

Init ==
    /\ windows = [w \in WindowIds |-> NoWindow]
    /\ files = [h \in HandleIds |-> NoFile]
    /\ contexts = [c \in ContextIds |-> NoContext]
    /\ fds = [k \in Fds |-> NULL]
    /\ unused = <<>>
    /\ last_unused = NULL
    /\ n_windows = 0
    /\ n_context_cache_hit = 0
    /\ n_window_list_hit = 0
    /\ n_missed = 0
    /\ n_ref = 1
    /\ mem = [r \in Regions |-> NoMapping]
    /\ bad_munmap = 0
    /\ queue = <<>>
    /\ aborted = FALSE
    /\ attributed = {}
    /\ last = NoCall

\* The cache without bus faults: mmap succeeds at once or after an
\* eviction.
Next ==
    \/ \E fd \in Fds : AddFd(fd, PROT_READ, FALSE)
    \/ \E f \in HandleIds, context \in ContextIds, keep_always \in BOOLEAN,
          q \in Requests, env \in EnvsMapped :
          /\ StatsBelow(MaxMissed, MaxHits)
          /\ Get(f, context, keep_always, q[1], q[2], q[3], env)
    \/ \E f \in HandleIds : FdFree(f, FALSE, TRUE)
    \/ Unref

Spec == Init /\ [][Next]_vars

\* The cache with bus faults
NextBus ==
    \/ \E fd \in Fds, prot \in Prots : AddFd(fd, prot, FALSE)
    \/ \E f \in HandleIds, context \in ContextIds, q \in Requests :
          /\ StatsBelow(MaxMissedBus, MaxHitsBus)
          /\ Get(f, context, FALSE, q[1], q[2], q[3], EnvOk)
    \/ \E f \in HandleIds, pop_error \in BOOLEAN, remap_ok \in BOOLEAN :
          GotSigbus(f, pop_error, remap_ok)
    \/ \E f \in HandleIds, pop_error \in BOOLEAN, remap_ok \in BOOLEAN :
          FdFree(f, pop_error, remap_ok)
    \/ \E addr \in FaultAddrs : Sigbus(addr)

SpecBus == Init /\ [][NextBus]_vars

\* The read path with the file size passed
NextHint ==
    \/ \E fd \in {0} : AddFd(fd, PROT_READ, FALSE)
    \/ \E f \in HandleIds, context \in ContextIds, q \in HintRequests,
          env \in EnvsMapped :
          /\ StatsBelow(MaxMissedHint, MaxHitsHint)
          /\ Get(f, context, FALSE, q[1], q[2], q[3], env)
    \/ \E f \in HandleIds : FdFree(f, FALSE, TRUE)

SpecHint == Init /\ [][NextHint]_vars

\* Reference counting and teardown
NextRef ==
    \/ \E fd \in Fds, prot \in Prots, oom \in BOOLEAN : AddFd(fd, prot, oom)
    \/ \E f \in HandleIds, context \in ContextIds, keep_always \in BOOLEAN :
          /\ StatsBelow(MaxMissedRef, MaxHitsRef)
          /\ Get(f, context, keep_always, 0, 10, <<>>, EnvOk)
    \/ \E f \in HandleIds : FdFree(f, FALSE, TRUE)
    \/ Ref
    \/ Unref

SpecRef == Init /\ [][NextRef]_vars

\* Requests of three regions that no window of WINDOW_SIZE bytes shares
LruRequests ==
    { <<0, 10, <<>>>>, <<20000000, 10, <<>>>>, <<40000000, 10, <<>>>> }

\* The unused list: gets only, mmap succeeds at once
NextLru ==
    \/ \E fd \in Fds : AddFd(fd, PROT_READ, FALSE)
    \/ \E f \in HandleIds, context \in ContextIds, keep_always \in BOOLEAN,
          q \in LruRequests :
          /\ StatsBelow(MaxMissedLru, MaxHitsLru)
          /\ GetTraced(f, context, keep_always, q[1], q[2], q[3], EnvOk)

SpecLru == Init /\ [][NextLru]_vars

\* The read path under every answer of mmap and of the allocator
NextMem ==
    \/ \E fd \in Fds : AddFd(fd, PROT_READ, FALSE)
    \/ \E f \in HandleIds, context \in ContextIds, q \in Requests,
          env \in Envs :
          /\ StatsBelow(MaxMissedMem, MaxHitsMem)
          /\ GetTraced(f, context, FALSE, q[1], q[2], q[3], env)

SpecMem == Init /\ [][NextMem]_vars

\* Requests <<offset, size>> around the page and window boundaries and at
\* the top of the 64-bit range.  PAGE_ALIGN is defined outside this file;
\* the requests are those where it is applied to a value whose rounding
\* does not overflow.
WinRequests ==
    {q \in {0, 1, 4095, 4096, 4097, 4194303, 4194304, 4194305, 8388608,
            20000000, U64 - 8388608, U64 - 1}
           \X {1, 10, 4096, 4097, 8388607, 8388608, 8388609, 16777216,
               U64 - 4095, U64 - 1} :
        (q[2] + (q[1] % page_size)) % U64 <= U64 - page_size}

\* One get without a file size, on an empty cache
NextWin ==
    \/ \E fd \in Fds : AddFd(fd, PROT_READ, FALSE)
    \/ \E f \in HandleIds, context \in ContextIds, q \in WinRequests :
          /\ StatsBelow(MaxMissedWin, MaxHitsWin)
          /\ GetTraced(f, context, FALSE, q[1], q[2], <<>>, EnvOk)

SpecWin == Init /\ [][NextWin]_vars

\* Requests with and without the file size, one of them past the end of
\* a file of 100 bytes
StatRequests ==
    { <<0, 10, <<>>>>, <<20000000, 10, <<>>>>, <<20000000, 10, <<100>>>> }

\* Every operation that can run between two reads of the counters, under
\* every answer of mmap and of the allocator
NextStat ==
    \/ \E fd \in Fds : AddFd(fd, PROT_READ, FALSE)
    \/ \E f \in HandleIds, context \in ContextIds, q \in StatRequests,
          env \in Envs :
          /\ StatsBelow(MaxMissedStat, MaxHitsStat)
          /\ GetTraced(f, context, FALSE, q[1], q[2], q[3], env)
    \/ \E f \in HandleIds : FdFree(f, FALSE, TRUE)
    \/ Ref
    \/ Unref

SpecStat == Init /\ [][NextStat]_vars

\* Requests <<offset, size>> inside a window, across its end, and with
\* offset + size beyond the 64-bit range (PAGE_ALIGN as for WinRequests)
MatchRequests ==
    {q \in {0, 4096, 8388607, 8388608, 20000000, U64 - 5, U64 - 1}
           \X {1, 10, 8388608, 8388609, U64 - 4096, U64 - 1} :
        (q[2] + (q[1] % page_size)) % U64 <= U64 - page_size}

\* Two gets of one context or two, without a file size
NextMatch ==
    \/ \E fd \in Fds : AddFd(fd, PROT_READ, FALSE)
    \/ \E f \in HandleIds, context \in ContextIds, q \in MatchRequests :
          /\ StatsBelow(MaxMissedMatch, MaxHitsMatch)
          /\ GetTraced(f, context, FALSE, q[1], q[2], <<>>, EnvOk)

SpecMatch == Init /\ [][NextMatch]_vars

\* Gets, closes, drains and the teardown together; the faults are those
\* of the windows of the cache
NextAll ==
    \/ \E fd \in Fds : AddFd(fd, PROT_READ, FALSE)
    \/ \E f \in HandleIds, context \in ContextIds, q \in Requests :
          /\ StatsBelow(MaxMissedAll, MaxHitsAll)
          /\ GetTraced(f, context, FALSE, q[1], q[2], q[3], EnvOk)
    \/ \E f \in HandleIds : GotSigbus(f, FALSE, TRUE)
    \/ \E f \in HandleIds : FdFree(f, FALSE, TRUE)
    \/ \E addr \in FaultAddrs \ {ForeignAddr} : Sigbus(addr)
    \/ Unref

SpecAll == Init /\ [][NextAll]_vars

----------------------------------------------------------------------------
(* Properties of the read path under bus faults (SpecBus) *)

\* The calls that run mmap_cache_process_sigbus
Drains == {"got_sigbus", "fd_free"}

\* C1: once a drain has found a queued address in a window of handle f,
\* f->sigbus is set and stays set while f lives, and every mmap_cache_fd_get
\* on f returns -EIO, whatever its arguments and whichever lookup would
\* have served it.
C1_PoisonedIsSticky ==
    [][\A f \in HandleIds :
          (files[f].live /\ f \in attributed)
          => /\ files[f].sigbus
             /\ files'[f].live => (files'[f].sigbus /\ f \in attributed')
             /\ (last'.op = "get" /\ last'.f = f) => last'.r = -EIO]_vars

\* A get on a poisoned handle was refused with -EIO on the window-list path
\* although no window of the handle covers the request (the allocate path
\* would have served it).
C1_Witness ==
    /\ last.op = "get"
    /\ last.f \in attributed
    /\ last.r = -EIO
    /\ last.path = "list"
    /\ FirstMatch(Heap, last.f, last.offset, last.size) = NULL

\* The windows on the window list of handle f
WindowsOf(f) == {files[f].windows[i] : i \in 1..Len(files[f].windows)}

\* C8: mmap_cache_fd_got_sigbus(f) leaves the queue empty and returns true
\* exactly when an address drained during f's lifetime lay in a window on
\* f's list; after true, every window of f is remapped to anonymous memory
\* and a get on f returns -EIO.
C8_GotSigbus ==
    /\ (last.op = "got_sigbus" /\ ~aborted)
       => /\ queue = <<>>
          /\ last.r = 1 <=> last.f \in attributed
          /\ last.r = 1 =>
                \A w \in WindowsOf(last.f) :
                    /\ windows[w].invalidated
                    /\ mem[RegionOf(windows[w].ptr)].kind = "anon"
    /\ (last.op = "get" /\ files[last.f].sigbus) => last.r = -EIO

\* got_sigbus returned true for a handle that has a window
C8_Witness ==
    /\ last.op = "got_sigbus"
    /\ ~aborted
    /\ last.r = 1
    /\ WindowsOf(last.f) # {}

\* Some queued address lies in no window of a registered handle
Unattributable ==
    \E i \in 1..Len(queue) : Owners(Heap, queue[i]) = {}

\* A drain of the current queue has a window to remap: an address is queued
\* and a registered handle that is poisoned, or owns a queued address, has a
\* window not remapped yet
RemapDue ==
    /\ queue # <<>>
    /\ \E w \in WindowIds :
          /\ windows[w].live
          /\ ~windows[w].invalidated
          /\ windows[w].fd \in Registered(Heap)
          /\ \/ files[windows[w].fd].sigbus
             \/ \E i \in 1..Len(queue) : windows[w].fd \in Owners(Heap, queue[i])

\* C9 as claimed: a drain aborts exactly when sigbus_pop reports an error or
\* a queued address lies in no window of a registered handle.
C9_AbortIffUnattributable ==
    [][last'.op \in Drains
          => (aborted' <=> (last'.pop_error \/ Unattributable))]_vars

\* C9 as amended: a drain aborts exactly when sigbus_pop reports an error,
\* a queued address lies in no window of a registered handle, or the
\* anonymous remap of a window fails; otherwise the whole queue is consumed.
C9_AbortIffUnattributableOrRemapFails ==
    [][last'.op \in Drains
          => /\ aborted' <=> \/ last'.pop_error
                             \/ Unattributable
                             \/ RemapDue /\ ~last'.remap_ok
             /\ ~aborted' => queue' = <<>>]_vars

\* A drain consumed a queue of attributable addresses without abort, and a
\* drain aborted
C9_Witness ==
    /\ last.op \in Drains
    /\ ~aborted
    /\ last.f \in attributed
    /\ queue = <<>>
    /\ \E w \in WindowIds : windows[w].live /\ windows[w].invalidated

----------------------------------------------------------------------------
(* Properties of the read path with the file size passed (SpecHint) *)

\* C2: a get that returns 1 stores a pointer p into the window w its context
\* is attached to afterwards: p >= w.ptr, p + size <= w.ptr + w.size and
\* p - w.ptr = offset - w.offset.
C2_PointerInsideWindow ==
    (last.op = "get" /\ last.r = 1)
    => /\ contexts[last.context].window # NULL
       /\ LET W == windows[contexts[last.context].window]
          IN /\ last.ret >= W.ptr
             /\ last.ret + last.size <= W.ptr + W.size
             /\ last.ret - W.ptr = last.offset - W.offset

\* The start of the window add_mmap maps for a request, written out: the
\* page of offset, moved down by half of what the request leaves of
\* WINDOW_SIZE (rounded up to pages), but not below 0
WindowStart(offset, size) ==
    LET first == (offset \div page_size) * page_size
        pages == ((offset + size - first) + page_size - 1) \div page_size
        room == WINDOW_SIZE - pages * page_size
        down == ((room \div 2 + page_size - 1) \div page_size) * page_size
    IN IF room <= 0 THEN first
       ELSE IF down > offset THEN 0 ELSE first - down

----------------------------------------------------------------------------
(* Properties of the window lists (Spec) *)

\* A window that is pinned, or attached to a context other than c
HeldApartFrom(w, c) ==
    /\ windows[w].live
    /\ \/ windows[w].keep_always
       \/ \E i \in 1..Len(windows[w].contexts) : windows[w].contexts[i] # c

\* C3: a get never recycles (window_add) or evicts (make_room) a window that
\* is pinned or attached to a context: across a get of context c, every
\* window that is pinned or attached to another context keeps its mapping,
\* its range and its contexts, and a window on the unused list is neither
\* pinned nor attached.
C3_HeldWindowsSurvive ==
    [][/\ \A i \in 1..Len(unused) :
             /\ windows[unused[i]].contexts = <<>>
             /\ ~windows[unused[i]].keep_always
       /\ last_unused # NULL => Contains(unused, last_unused)
       /\ last'.op = "get" =>
             \A w \in WindowIds :
                 HeldApartFrom(w, last'.context)
                 => /\ windows'[w].live
                    /\ windows'[w].ptr = windows[w].ptr
                    /\ windows'[w].size = windows[w].size
                    /\ windows'[w].offset = windows[w].offset
                    /\ windows'[w].fd = windows[w].fd
                    /\ mem'[RegionOf(windows[w].ptr)] =
                           mem[RegionOf(windows[w].ptr)]
                    /\ mem[RegionOf(windows[w].ptr)].kind = "file"
                    /\ \A c \in ContextIds \ {last'.context} :
                           contexts[c].window = w => contexts'[c].window = w
      ]_vars

\* A get of one context evicted or recycled a window (a window was mapped
\* and fewer windows are live than were mapped) while another context stays
\* attached to a live window
C3_Witness ==
    /\ last.op = "get"
    /\ last.r = 1
    /\ last.path = "alloc"
    /\ n_windows < n_missed
    /\ \E c \in ContextIds \ {last.context} :
          /\ contexts[c].window # NULL
          /\ windows[contexts[c].window].live
          /\ mem[RegionOf(windows[contexts[c].window].ptr)].kind = "file"

\* The windows of handle f
OwnedBy(f) == {w \in WindowIds : windows[w].live /\ windows[w].fd = f}

\* C5: after mmap_cache_fd_free(f) no live window has fd f, no context points
\* to a former window of f, none of them is on the unused list or is
\* last_unused, f is out of the registry, and n_windows has dropped by the
\* number of windows f owned.
C5_CloseRemovesWindows ==
    [][(last'.op = "fd_free" /\ ~aborted')
          => LET f == last'.f IN
             /\ \A w \in WindowIds : windows'[w].live => windows'[w].fd # f
             /\ \A w \in OwnedBy(f) :
                   /\ ~windows'[w].live
                   /\ \A c \in ContextIds : contexts'[c].window # w
                   /\ ~Contains(unused', w)
                   /\ last_unused' # w
                   /\ mem'[RegionOf(windows[w].ptr)].kind = "none"
             /\ ~files'[f].live
             /\ \A k \in Fds : fds'[k] # f
             /\ n_windows' = n_windows - Cardinality(OwnedBy(f))]_vars

\* A handle was closed whose window a context was attached to (the context
\* is left without window), while a window of another handle stays
C5_Witness ==
    /\ last.op = "fd_free"
    /\ ~aborted
    /\ \E c \in ContextIds : contexts[c].live /\ contexts[c].window = NULL
    /\ n_windows = 1
    /\ unused = <<>>

----------------------------------------------------------------------------
(* Properties of registration and teardown (SpecRef) *)

\* C4: mmap_cache_add_fd on an fd that is registered returns the handle of
\* the registry and changes neither its prot, its sigbus flag nor its
\* window list; no two handles have the same fd.
C4_RegisterIsIdempotent ==
    [][/\ \A f1, f2 \in HandleIds :
             (files[f1].live /\ files[f2].live /\ files[f1].fd = files[f2].fd)
             => f1 = f2
       /\ (last'.op = "add_fd" /\ fds[last'.fd] # NULL)
          => /\ last'.f = fds[last'.fd]
             /\ files' = files
             /\ fds' = fds
             /\ windows' = windows]_vars

\* An fd was registered again: the handle returned has a window already
C4_Witness ==
    /\ last.op = "add_fd"
    /\ last.f # NULL
    /\ files[last.f].windows # <<>>

\* C6: after the last mmap_cache_unref no mapping made through the cache is
\* left in the address space.
C6_NoMappingAfterTeardown ==
    n_ref = 0 => \A r \in Regions : mem[r].kind = "none"

\* C7: the cache is torn down only at reference count zero (an unref that
\* leaves references changes no handle, window, context or mapping), and
\* after the last mmap_cache_unref no handle, window or context is live.
C7_NothingLiveAfterTeardown ==
    [][last'.op = "unref"
          => IF n_ref' > 0
             THEN /\ files' = files
                  /\ windows' = windows
                  /\ contexts' = contexts
                  /\ mem' = mem
             ELSE /\ \A f \in HandleIds : ~files'[f].live
                  /\ \A w \in WindowIds : ~windows'[w].live
                  /\ \A c \in ContextIds : ~contexts'[c].live]_vars

----------------------------------------------------------------------------
(* Properties of the read path under allocation failures (SpecMem) *)

\* Window record W covers the request
Covers(W, offset, size) ==
    offset >= W.offset /\ offset + size <= W.offset + W.size

\* The request is served by the window context c is attached to
ContextHit(f, c, offset, size) ==
    /\ contexts[c].live
    /\ contexts[c].window # NULL
    /\ windows[contexts[c].window].fd = f
    /\ Covers(windows[contexts[c].window], offset, size)

\* Some window on f's list covers the request
ListHit(f, offset, size) ==
    \E i \in 1..Len(files[f].windows) :
        Covers(windows[files[f].windows[i]], offset, size)

\* The unused list when a get of context c comes to mmap: the window c
\* leaves joins it at the head if c was its only context and it is not
\* pinned
UnusedAtMiss(c) ==
    IF /\ contexts[c].live
       /\ contexts[c].window # NULL
       /\ windows[contexts[c].window].contexts = <<c>>
       /\ ~windows[contexts[c].window].keep_always
    THEN <<contexts[c].window>> \o unused
    ELSE unused

\* C11: a get whose mmap fails with ENOMEM evicts from the unused list and
\* retries while the list is non-empty, so it returns -ENOMEM out of the
\* retry loop only with the unused list empty; another errno of mmap is
\* returned at once and nothing is evicted.
C11_EnomemOnlyWhenUnusedEmpty ==
    [][(last'.op = "get" /\ last'.path = "alloc" /\ last'.oom = "none")
          => /\ (last'.r = -ENOMEM /\ FreeWindowSlots(Heap)' # {})
                => unused' = <<>>
             /\ last'.mm = "fail"
                => /\ last'.r = -EINVAL
                   /\ n_windows' = n_windows
                   /\ mem' = mem]_vars

\* The regions of the address space that hold a mapping
MappedRegions == {r \in Regions : mem[r].kind # "none"}

\* The regions the live windows point into
WindowRegions == {RegionOf(windows[w].ptr) : w \in {x \in WindowIds : windows[x].live}}

\* Back-references of contexts and windows agree, in_unused is membership
\* of the unused list, and n_windows counts the live windows
Structure ==
    /\ \A c \in ContextIds :
          /\ ~contexts[c].live => contexts[c].window = NULL
          /\ contexts[c].window # NULL => windows[contexts[c].window].live
    /\ \A c \in ContextIds, w \in WindowIds :
          windows[w].live
             => (contexts[c].window = w <=> Contains(windows[w].contexts, c))
    /\ \A w \in WindowIds :
          /\ windows[w].live => (windows[w].in_unused <=> Contains(unused, w))
          /\ Contains(unused, w) => windows[w].live
    /\ n_windows = Cardinality({w \in WindowIds : windows[w].live})

\* A get returned -ENOMEM after its mmap succeeded: mmap was not made to
\* fail, and the address space has room again on return
AllocFailed ==
    /\ last.op = "get"
    /\ last.path = "alloc"
    /\ last.r = -ENOMEM
    /\ last.mm = "ok"
    /\ FreeRegions(Heap) # {}

\* C12: when a get returns -ENOMEM because the context or the window record
\* cannot be allocated after mmap succeeded, the fresh mapping is unmapped
\* exactly once and no window refers to it, n_windows is not incremented,
\* the back-references, the unused-list membership and the live count stay
\* consistent, and the cache is not torn down.
C12_FailedAllocLeavesNoMapping ==
    [][AllocFailed'
          => /\ MappedRegions' = WindowRegions'
             /\ bad_munmap' = bad_munmap
             /\ n_windows' <= n_windows
             /\ Structure'
             /\ n_ref' = n_ref
             /\ ~aborted'
             /\ \A f \in HandleIds : files'[f].live = files[f].live]_vars

\* The window record could not be allocated after a successful mmap
C12_Witness ==
    /\ AllocFailed
    /\ last.oom = "window"
    /\ n_windows >= 1
    /\ \E c \in ContextIds : contexts[c].live

----------------------------------------------------------------------------
(* Properties of pinning, of the counters and of the unused list (SpecLru) *)

\* A get was answered by a window that existed before the call
HitAnswered ==
    last.op = "get" /\ last.r = 1 /\ last.path \in {"context", "list"}

\* C13: keep_always of a window never goes from true to false while the
\* window is live: a pinned window that is still live after a step is the
\* same mapping and still pinned, and a hit on the context path or on the
\* list path leaves the flag at (old flag OR requested flag).
C13_PinIsSticky ==
    [][/\ \A w \in WindowIds :
             (windows[w].live /\ windows[w].keep_always /\ windows'[w].live)
                => /\ windows'[w].keep_always
                   /\ windows'[w].ptr = windows[w].ptr
                   /\ windows'[w].fd = windows[w].fd
       /\ HitAnswered'
             => windows'[contexts'[last'.context].window].keep_always
                   = (windows[contexts'[last'.context].window].keep_always
                         \/ last'.keep_always)]_vars

\* A pinned window was hit by a request that does not ask for the pin
C13_Witness ==
    /\ HitAnswered
    /\ ~last.keep_always
    /\ windows[contexts[last.context].window].keep_always

\* C14: a successful get increments exactly one of the three counters by
\* one and creates a mapping only on a miss: a context hit if the window
\* the context is attached to is on the file and covers the request, else
\* a list hit if a window on the file's list covers it, else a miss; and
\* the same get repeated is a context hit.
C14_OneCounterPerGet ==
    [][(last'.op = "get" /\ last'.r = 1)
          => /\ IF ContextHit(last'.f, last'.context, last'.offset, last'.size)
                THEN /\ n_context_cache_hit' = n_context_cache_hit + 1
                     /\ n_window_list_hit' = n_window_list_hit
                     /\ n_missed' = n_missed
                     /\ mem' = mem
                ELSE IF ListHit(last'.f, last'.offset, last'.size)
                THEN /\ n_context_cache_hit' = n_context_cache_hit
                     /\ n_window_list_hit' = n_window_list_hit + 1
                     /\ n_missed' = n_missed
                     /\ mem' = mem
                ELSE /\ n_context_cache_hit' = n_context_cache_hit
                     /\ n_window_list_hit' = n_window_list_hit
                     /\ n_missed' = n_missed + 1
                     /\ Cardinality(MappedRegions' \ MappedRegions) = 1
             /\ contexts'[last'.context].window # NULL
             /\ windows'[contexts'[last'.context].window].fd = last'.f
             /\ Covers(windows'[contexts'[last'.context].window],
                       last'.offset, last'.size)]_vars

\* get(0), get(20000000), get(0) on one file and one context: two misses,
\* then a list hit
C14_Witness ==
    /\ last.op = "get" /\ last.r = 1 /\ last.path = "list"
    /\ last.offset = 0
    /\ n_missed = 2 /\ n_window_list_hit = 1 /\ n_context_cache_hit = 0
    /\ Cardinality({c \in ContextIds : contexts[c].live}) = 1
    /\ Cardinality({f \in HandleIds : files[f].live}) = 1

\* Every get so far was a miss of one and the same context
OneContextMisses ==
    /\ n_context_cache_hit = 0
    /\ n_window_list_hit = 0
    /\ Cardinality({c \in ContextIds : contexts[c].live}) = 1

\* No live window is pinned
Unpinned == \A w \in WindowIds : windows[w].live => ~windows[w].keep_always

\* The window of the first get (it is mapped at the lowest address) is live
\* and pinned, and it is the only pinned window
FirstPinned ==
    /\ \E w \in WindowIds : windows[w].live /\ RegionOf(windows[w].ptr) = 1
    /\ \A w \in WindowIds :
          windows[w].live
             => (windows[w].keep_always <=> RegionOf(windows[w].ptr) = 1)

\* C15 as stated, with WINDOWS_MIN for the 2 of the scenario: after
\* WINDOWS_MIN + 1 gets of one context with keep_always = false on disjoint
\* regions the window of the first get has been unmapped; with the first
\* window pinned nothing is recycled and the get after that allocates a
\* fresh window.
C15_RecycledAtFloorPlusOne ==
    /\ (OneContextMisses /\ Unpinned /\ n_missed = WINDOWS_MIN + 1)
          => mem[1].kind = "none"
    /\ (OneContextMisses /\ FirstPinned /\ n_missed = WINDOWS_MIN + 2)
          => n_windows = n_missed

\* C15 (amended): the first WINDOWS_MIN + 1 gets of one context with
\* keep_always = false on disjoint regions each allocate a window and
\* unmap nothing; get number WINDOWS_MIN + 2 recycles the window of the
\* first get.  With the first window pinned, get number WINDOWS_MIN + 2
\* recycles the window of the second get and the pinned window stays
\* mapped.
C15_RecycledAtFloorPlusTwo ==
    /\ (OneContextMisses /\ Unpinned /\ n_missed <= WINDOWS_MIN + 1)
          => /\ n_windows = n_missed
             /\ MappedRegions = 1..n_missed
    /\ (OneContextMisses /\ Unpinned /\ n_missed = WINDOWS_MIN + 2)
          => /\ n_windows = WINDOWS_MIN + 1
             /\ MappedRegions = 2..(WINDOWS_MIN + 2)
    /\ (OneContextMisses /\ FirstPinned /\ n_missed = WINDOWS_MIN + 2)
          => /\ n_windows = WINDOWS_MIN + 1
             /\ MappedRegions = (1..(WINDOWS_MIN + 2)) \ {2}

\* The get number WINDOWS_MIN + 2 has recycled the window of the first get
C15_Witness ==
    /\ OneContextMisses /\ Unpinned
    /\ n_missed = WINDOWS_MIN + 2
    /\ last.op = "get" /\ last.r = 1
    /\ mem[1].kind = "none"

\* The get number WINDOWS_MIN + 2 has left the pinned first window mapped
C15_PinnedWitness ==
    /\ OneContextMisses /\ FirstPinned
    /\ n_missed = WINDOWS_MIN + 2
    /\ last.op = "get" /\ last.r = 1

\* C17: after any sequence of public operations last_unused is the last
\* node of the unused list, and it is null exactly when the list is empty;
\* in particular after a context has re-attached to the window that was
\* the tail while other windows are still on the list.
C17_TailPointer ==
    IF unused = <<>>
    THEN last_unused = NULL
    ELSE last_unused = unused[Len(unused)]

Max(a, b) == IF a >= b THEN a ELSE b

\* The contexts in use: no more windows than that are ever attached to
\* contexts at the same time
LiveContexts == {c \in ContextIds : contexts[c].live}

\* The live windows that are pinned
PinnedWindows == {w \in WindowIds : windows[w].live /\ windows[w].keep_always}

\* C16: over all sequences of gets the number of live windows is at most
\* max(WINDOWS_MIN, peak number of windows attached to contexts at the
\* same time) plus the number of pinned windows.
C16_LiveWindowsBounded ==
    n_windows <= Max(WINDOWS_MIN, Cardinality(LiveContexts))
                    + Cardinality(PinnedWindows)

\* The bound of C16 with the floor taken as WINDOWS_MIN + 1, the live
\* count up to which window_add allocates
C16_LiveWindowsBoundedSoftFloor ==
    n_windows <= Max(WINDOWS_MIN + 1, Cardinality(LiveContexts))
                    + Cardinality(PinnedWindows)

\* A get has missed and mapped a new window
MissServed == last.op = "get" /\ last.r = 1 /\ last.path = "alloc"

\* C19: window_add recycles whenever the unused list is non-empty and the
\* live count exceeds WINDOWS_MIN, and allocates a fresh window,
\* incrementing the live count, only when the unused list is empty or the
\* count is at most WINDOWS_MIN.
C19_RecycleIffUnusedAndAboveFloor ==
    [][MissServed'
          => IF UnusedAtMiss(last'.context) # <<>> /\ n_windows > WINDOWS_MIN
             THEN n_windows' = n_windows
             ELSE n_windows' = n_windows + 1]_vars

\* The tail of the unused list when a get of context c comes to mmap
TailAtMiss(c) == UnusedAtMiss(c)[Len(UnusedAtMiss(c))]

\* C20: whenever a window is recycled or evicted, the victim is the tail
\* of the unused list, the window that became unused earliest among those
\* on the list.
C20_VictimIsTail ==
    [][(MissServed' /\ n_windows' = n_windows)
          => /\ UnusedAtMiss(last'.context) # <<>>
             /\ contexts'[last'.context].window = TailAtMiss(last'.context)]_vars

----------------------------------------------------------------------------
(* The unused list under all public operations (Spec) *)

\* C18: at the end of every public operation a live window has in_unused
\* set and is on the unused list exactly when no context is attached to it
\* and it is not pinned.
C18_UnusedIffIdleAndUnpinned ==
    \A w \in WindowIds :
        /\ windows[w].live
              => /\ windows[w].in_unused <=> Contains(unused, w)
                 /\ Contains(unused, w)
                       <=> (windows[w].contexts = <<>> /\ ~windows[w].keep_always)
        /\ Contains(unused, w) => windows[w].live

\* A list hit has taken a window off the unused list, and the window the
\* context left is on it
C18_Witness ==
    /\ last.op = "get" /\ last.r = 1 /\ last.path = "list"
    /\ ~windows[contexts[last.context].window].in_unused
    /\ \E w \in WindowIds :
          /\ windows[w].live /\ windows[w].in_unused
          /\ Contains(unused, w)
          /\ windows[w].contexts = <<>>

\* The places <<f, i>> of the window lists of the registered handles
ListedPlaces ==
    UNION {{<<f, i>> : i \in 1..Len(files[f].windows)} : f \in Registered(Heap)}

\* C21: while the cache is live, n_windows is the number of windows linked
\* on the window lists of the registered handles, and every window on the
\* list of a handle is live, is there once and has that handle as its fd.
C21_CountIsListedWindows ==
    Alive
       => /\ n_windows = Cardinality(ListedPlaces)
          /\ \A p \in ListedPlaces :
                /\ windows[files[p[1]].windows[p[2]]].live
                /\ windows[files[p[1]].windows[p[2]]].fd = p[1]
          /\ \A p, q \in ListedPlaces :
                files[p[1]].windows[p[2]] = files[q[1]].windows[q[2]] => p = q

\* Three misses have left two live windows, both on the list of one
\* handle: a window was recycled, evicted or freed on the way
C21_Witness ==
    /\ last.op = "get" /\ last.r = 1 /\ last.path = "alloc"
    /\ n_windows = 2
    /\ n_missed = 3
    /\ \E f \in HandleIds : files[f].live /\ Len(files[f].windows) = 2

----------------------------------------------------------------------------
(* Poisoned handles and their windows (SpecBus) *)

\* C22: at the end of every public operation every window on the list of
\* a poisoned handle is invalidated, its range being anonymous memory at
\* the same address; and no window is added to the list of a handle once
\* it is poisoned.
C22_PoisonedWindowsInvalidated ==
    [][~aborted'
          => \A f \in HandleIds :
                /\ (files'[f].live /\ files'[f].sigbus)
                      => \A i \in 1..Len(files'[f].windows) :
                            /\ windows'[files'[f].windows[i]].invalidated
                            /\ mem'[RegionOf(windows'[files'[f].windows[i]].ptr)].kind
                                  = "anon"
                /\ (files[f].live /\ files[f].sigbus /\ files'[f].live)
                      => \A i \in 1..Len(files'[f].windows) :
                            /\ Contains(files[f].windows, files'[f].windows[i])
                            /\ windows'[files'[f].windows[i]].ptr
                                  = windows[files'[f].windows[i]].ptr]_vars

\* A drain has poisoned a handle with two windows
C22_Witness ==
    /\ ~aborted
    /\ last.op \in {"got_sigbus", "fd_free"}
    /\ \E f \in HandleIds :
          /\ files[f].live /\ files[f].sigbus
          /\ Len(files[f].windows) = 2
          /\ \A i \in 1..2 : windows[files[f].windows[i]].invalidated

\* A get on a poisoned handle for a range none of its windows covers
C22_RefusedWitness ==
    /\ ~aborted
    /\ last.op = "get" /\ last.r = -EIO /\ last.path = "list"
    /\ ~ListHit(last.f, last.offset, last.size)

\* An address inside a window on the list of handle f is queued
QueuedIn(f) == \E i \in 1..Len(queue) : f \in Owners(Heap, queue[i])

\* What a close of f does when it does not abort: the queue is empty, the
\* other handles that had a queued address are poisoned with their windows
\* remapped, and f is gone with its windows unmapped
ClosedAfterDrain(f) ==
    /\ ~aborted'
    /\ queue' = <<>>
    /\ \A g \in HandleIds \ {f} :
          QueuedIn(g)
             => /\ files'[g].live /\ files'[g].sigbus
                /\ \A i \in 1..Len(files'[g].windows) :
                      windows'[files'[g].windows[i]].invalidated
    /\ ~files'[f].live
    /\ \A i \in 1..Len(files[f].windows) :
          /\ ~windows'[files[f].windows[i]].live
          /\ mem'[RegionOf(windows[files[f].windows[i]].ptr)].kind = "none"

\* C23 as stated: a close of f issued while an address inside one of f's
\* windows is queued does not abort, leaves the queue empty and poisons
\* every other handle whose window holds a queued address.
C23_CloseDrainsFirst ==
    [][(last'.op = "fd_free" /\ QueuedIn(last'.f))
          => ClosedAfterDrain(last'.f)]_vars

\* C23 (amended): the same, for a close during which sigbus_pop reports no
\* error, every queued address lies in a window of a registered handle and
\* the remap of window_invalidate succeeds; a close aborts in the other
\* cases and in no further one.
C23_CloseDrainsFirstUnlessFatal ==
    [][(last'.op = "fd_free" /\ QueuedIn(last'.f))
          => IF last'.pop_error \/ Unattributable
                \/ (RemapDue /\ ~last'.remap_ok)
             THEN aborted'
             ELSE ClosedAfterDrain(last'.f)]_vars

\* A close of a handle with a queued address has poisoned another handle
C23_Witness ==
    /\ last.op = "fd_free"
    /\ ~aborted
    /\ queue = <<>>
    /\ last.queued = 2
    /\ last.f \in attributed
    /\ ~files[last.f].live
    /\ \E g \in HandleIds : files[g].live /\ files[g].sigbus

----------------------------------------------------------------------------
(* Contexts and windows under all public operations (Spec) *)

\* The windows that list context c
WindowsListing(c) == {w \in WindowIds : Contains(windows[w].contexts, c)}

\* C24: between public operations, a context whose window is w is listed
\* exactly once in the contexts of w and w is live; every context listed
\* by a window has that window as its window; a context is listed by at
\* most one window; and the context in slot i has id i.
C24_ContextLinks ==
    \A c \in ContextIds :
        /\ contexts[c].live => contexts[c].id = c
        /\ contexts[c].window # NULL
              => /\ contexts[c].live
                 /\ windows[contexts[c].window].live
                 /\ Cardinality({i \in 1..Len(windows[contexts[c].window].contexts) :
                                    windows[contexts[c].window].contexts[i] = c}) = 1
        /\ \A w \in WindowsListing(c) : contexts[c].window = w
        /\ Cardinality(WindowsListing(c)) <= 1

\* Two contexts share a window while another window is live
C24_Witness ==
    /\ \E w \in WindowIds : windows[w].live /\ Len(windows[w].contexts) = 2
    /\ n_windows >= 2
    /\ last.op = "get" /\ last.r = 1

----------------------------------------------------------------------------
(* The geometry of a new window (SpecWin) *)

\* l rounded up to a multiple of the page size, in unbounded arithmetic
AlignUp(l) == ((l + page_size - 1) \div page_size) * page_size

\* The page-aligned span of a request, in unbounded arithmetic
Span(offset, size) == AlignUp(size + (offset % page_size))

\* The window the last get has attached its context to
WindowOfLast == windows[contexts[last.context].window]

\* C25: a get that reaches the allocate path without a file size maps a
\* window whose offset is a multiple of the page size, is at most the
\* requested offset and is 0 where the centring would go below 0; whose
\* size is a multiple of the page size, WINDOW_SIZE when the page-aligned
\* span of the request is smaller and that span otherwise; and which
\* covers [offset, offset + size).  The pointer returned is the window
\* base plus the distance of offset from the window offset.
C25_WindowGeometry ==
    (MissServed /\ last.st = <<>>)
       => /\ WindowOfLast.offset % page_size = 0
          /\ WindowOfLast.offset <= last.offset
          /\ WindowOfLast.size % page_size = 0
          /\ WindowOfLast.size = Max(WINDOW_SIZE, Span(last.offset, last.size))
          /\ Span(last.offset, last.size) < WINDOW_SIZE
                => WindowOfLast.offset
                      = Max(0, last.offset - (last.offset % page_size)
                                  - AlignUp((WINDOW_SIZE
                                               - Span(last.offset, last.size))
                                            \div 2))
          /\ Span(last.offset, last.size) >= WINDOW_SIZE
                => WindowOfLast.offset
                      = last.offset - (last.offset % page_size)
          /\ last.offset + last.size
                <= WindowOfLast.offset + WindowOfLast.size
          /\ last.ret = WindowOfLast.ptr + (last.offset - WindowOfLast.offset)

\* C25 for the requests whose size plus the offset into the page stays
\* below 2^64
C25_WindowGeometryNoWrap ==
    (last.op = "get" /\ last.size + (last.offset % page_size) < U64)
       => C25_WindowGeometry

----------------------------------------------------------------------------
(* Gets refused on a poisoned handle (SpecBus) *)

\* C26: a get that returns -EIO touches no mapping: no window is created,
\* unmapped, freed or remapped, n_windows and the three counters are
\* unchanged and the window lists of the handles are unchanged; at most
\* the context loses its binding to a window that is not on the handle or
\* does not cover the request.
C26_RefusedGetTouchesNothing ==
    [][(last'.op = "get" /\ last'.r = -EIO)
          => /\ mem' = mem
             /\ bad_munmap' = bad_munmap
             /\ n_windows' = n_windows
             /\ n_context_cache_hit' = n_context_cache_hit
             /\ n_window_list_hit' = n_window_list_hit
             /\ n_missed' = n_missed
             /\ files' = files
             /\ fds' = fds
             /\ queue' = queue
             /\ \A w \in WindowIds :
                   /\ windows'[w].live = windows[w].live
                   /\ windows'[w].ptr = windows[w].ptr
                   /\ windows'[w].offset = windows[w].offset
                   /\ windows'[w].size = windows[w].size
                   /\ windows'[w].fd = windows[w].fd
                   /\ windows'[w].invalidated = windows[w].invalidated
                   /\ windows'[w].keep_always = windows[w].keep_always
             /\ \A c \in ContextIds \ {last'.context} : contexts'[c] = contexts[c]
             /\ \/ contexts'[last'.context] = contexts[last'.context]
                \/ /\ contexts'[last'.context].window = NULL
                   /\ ~ContextHit(last'.f, last'.context, last'.offset,
                                  last'.size)]_vars

\* A get on a poisoned handle was refused and the context lost its window
C26_Witness ==
    /\ last.op = "get" /\ last.r = -EIO
    /\ contexts[last.context].live
    /\ contexts[last.context].window = NULL
    /\ unused # <<>>

\* A get on a poisoned handle was refused by the context's own window
C26_ContextWitness ==
    /\ last.op = "get" /\ last.r = -EIO /\ last.path = "context"
    /\ contexts[last.context].window # NULL

----------------------------------------------------------------------------
(* The statistics counters (SpecStat) *)

\* C27: the three counters never decrease, a get changes at most one of
\* them and by exactly one, and a get that fails on the allocate path
\* (-EADDRNOTAVAIL, -ENOMEM or another errno of mmap) has incremented the
\* miss counter by one and left the other two unchanged.
C27_CountersMonotone ==
    [][/\ n_context_cache_hit' >= n_context_cache_hit
       /\ n_window_list_hit' >= n_window_list_hit
       /\ n_missed' >= n_missed
       /\ last'.op = "get"
             => (n_context_cache_hit' - n_context_cache_hit)
                   + (n_window_list_hit' - n_window_list_hit)
                   + (n_missed' - n_missed) <= 1
       /\ (last'.op = "get" /\ last'.path = "alloc" /\ last'.r < 0)
             => /\ last'.r \in {-EADDRNOTAVAIL, -ENOMEM, -EINVAL}
                /\ n_missed' = n_missed + 1
                /\ n_context_cache_hit' = n_context_cache_hit
                /\ n_window_list_hit' = n_window_list_hit]_vars

\* A get was refused for a range past the end of the file after the miss
\* was counted
C27_Witness ==
    /\ last.op = "get" /\ last.path = "alloc" /\ last.r = -EADDRNOTAVAIL
    /\ n_missed >= 2
    /\ n_windows = 1

\* A get failed with the errno of mmap after the miss was counted
C27_MmapWitness ==
    /\ last.op = "get" /\ last.path = "alloc" /\ last.r = -EINVAL
    /\ n_missed >= 1

----------------------------------------------------------------------------
(* window_matches against coverage in unbounded arithmetic (SpecMatch) *)

\* C28: window_matches(w, offset, size) is true exactly when, in unbounded
\* arithmetic, offset >= w.offset and offset + size <= w.offset + w.size,
\* also for requests whose offset + size goes beyond the 64-bit range; no
\* get is answered, on the context path or on the list path, by a window
\* that does not cover the request.
C28_MatchIsCoverage ==
    [][last'.op = "get"
          => /\ \A w \in WindowIds :
                   windows[w].live
                      => (window_matches(windows[w], last'.offset, last'.size)
                             <=> Covers(windows[w], last'.offset, last'.size))
             /\ HitAnswered'
                   => Covers(windows[contexts'[last'.context].window],
                             last'.offset, last'.size)]_vars

\* C28 for the requests whose offset + size stays inside the word and the
\* windows whose end does
C28_MatchIsCoverageNoWrap ==
    [][(last'.op = "get" /\ last'.offset + last'.size < U64)
          => \A w \in WindowIds :
                (windows[w].live /\ windows[w].offset + windows[w].size < U64)
                   => (window_matches(windows[w], last'.offset, last'.size)
                          <=> Covers(windows[w], last'.offset, last'.size))]_vars

----------------------------------------------------------------------------
(* Mappings under gets, closes, drains and the teardown (SpecAll) *)

\* The live windows
LiveWindows == {w \in WindowIds : windows[w].live}

\* C29: over gets, closes, drains and the teardown no mapping is unmapped
\* twice, the ptr of every live window lies in a region that is mapped,
\* two live windows lie in different regions, and when a window record
\* has been recycled the only context pointing to it is the one the get
\* has just attached.
C29_MappingsOwnedOnce ==
    [][/\ bad_munmap' = 0
       /\ \A w \in LiveWindows' :
             /\ RegionOf(windows'[w].ptr) \in Regions
             /\ mem'[RegionOf(windows'[w].ptr)].kind # "none"
       /\ \A w1, w2 \in LiveWindows' :
             w1 # w2 => RegionOf(windows'[w1].ptr) # RegionOf(windows'[w2].ptr)
       /\ \A w \in LiveWindows \cap LiveWindows' :
             windows'[w].ptr # windows[w].ptr
                => /\ last'.op = "get"
                   /\ mem'[RegionOf(windows[w].ptr)].kind = "none"
                   /\ \A c \in ContextIds :
                         contexts'[c].window = w
                            => /\ c = last'.context
                               /\ windows'[w].contexts = <<c>>]_vars

\* The record of the first window has been recycled for the third mapping
C29_Witness ==
    /\ MissServed
    /\ windows[1].live /\ RegionOf(windows[1].ptr) = 3
    /\ mem[1].kind = "none"
    /\ contexts[last.context].window = 1

----------------------------------------------------------------------------
(* The window last_unused points to (Spec) *)

\* C30: last_unused is NULL or a live window that is linked on the unused
\* list, with in_unused set, no context attached and keep_always clear.
C30_LastUnusedIsUnused ==
    last_unused # NULL
       => /\ last_unused \in WindowIds
          /\ windows[last_unused].live
          /\ windows[last_unused].in_unused
          /\ Contains(unused, last_unused)
          /\ windows[last_unused].contexts = <<>>
          /\ \A c \in ContextIds : contexts[c].window # last_unused
          /\ ~windows[last_unused].keep_always

\* A get has taken a window off the unused list and last_unused points to
\* another window that stays on it
C30_Witness ==
    /\ last.op = "get" /\ last.r = 1 /\ last.path = "list"
    /\ last_unused # NULL
    /\ Len(unused) >= 1
    /\ contexts[last.context].window # NULL
    /\ contexts[last.context].window # last_unused
    /\ windows[contexts[last.context].window].contexts = <<last.context>>
    /\ ~windows[contexts[last.context].window].keep_always

----------------------------------------------------------------------------
(* The loops of mmap_try_harder and mmap_cache_process_sigbus, one
   iteration at a time (SpecLoop) *)

MaxMissedLoop == 3
MaxHitsLoop == 1

\* The first attempt of mmap fails with an errno other than ENOMEM
EnvFail == [mm |-> "fail", oom |-> "none"]

\* A call is inside mmap_try_harder / inside the first loop of
\* mmap_cache_process_sigbus
InRetryLoop == last.op = "get" /\ last.path = "loop"
InDrainLoop == last.op = "got_sigbus" /\ last.path = "drain"
Busy == InRetryLoop \/ InDrainLoop

\* mmap_cache_fd_get answered by try_context or find_mmap
GetHit(f, context, keep_always, offset, size) ==
    /\ Alive /\ ~Busy
    /\ files[f].live
    /\ With(mmap_cache_fd_get(Heap, f, context, keep_always, offset, size,
                              <<>>, EnvOk), LAMBDA g :
       /\ g.path # "alloc"
       /\ Store(g.heap, [NoCall EXCEPT !.op = "get", !.f = f,
                                       !.context = context,
                                       !.offset = offset, !.size = size,
                                       !.r = g.r, !.ret = g.ret,
                                       !.path = g.path]))

\* mmap_cache_fd_get up to the for (;;) of mmap_try_harder: try_context and
\* find_mmap have returned 0, the miss is counted, the window is laid out.
\* The record of the call keeps the number of make_room calls that
\* returned 1 (retries) and the length of the unused list at the entry.
RetryEnter(f, context, keep_always, offset, size) ==
    /\ Alive /\ ~Busy
    /\ files[f].live
    /\ With(mmap_cache_fd_get(Heap, f, context, keep_always, offset, size,
                              <<>>, EnvFail), LAMBDA g :
       /\ g.path = "alloc"
       /\ Store(g.heap, [NoCall EXCEPT !.op = "get", !.f = f,
                                       !.context = context,
                                       !.offset = offset, !.size = size,
                                       !.path = "loop"]
                        @@ [keep_always |-> keep_always, retries |-> 0,
                            unused0 |-> Len(g.heap.unused),
                            n_windows0 |-> g.heap.n_windows]))

\* One iteration of the for (;;) of mmap_try_harder.  answer is what mmap
\* does in this iteration: "ok", "enomem" or "fail" (another errno); with
\* no free region it is ENOMEM.  On ENOMEM make_room either frees a window
\* and the loop goes round, or the call returns -ENOMEM; otherwise
\* add_mmap runs to its end.
RetryStep(answer) ==
    /\ Alive /\ InRetryLoop
    /\ IF answer = "enomem" \/ (answer = "ok" /\ FreeRegions(Heap) = {})
       THEN With(make_room(Heap), LAMBDA mr :
            IF mr.r = 0
            THEN Store(Heap, [last EXCEPT !.r = -ENOMEM, !.path = "alloc"])
            ELSE Store(mr.heap, [last EXCEPT !.retries = @ + 1]))
       ELSE With(add_mmap(Heap, last.f, last.context, last.keep_always,
                          last.offset, last.size, <<>>,
                          [mm |-> answer, oom |-> "none"]), LAMBDA am :
            Store(am.heap, [last EXCEPT !.r = am.r, !.ret = am.ret,
                                        !.path = "alloc"]))

\* mmap_cache_fd_got_sigbus(f) up to the for (;;) of
\* mmap_cache_process_sigbus
DrainEnter(f) ==
    /\ Alive /\ ~Busy
    /\ files[f].live
    /\ Store(Heap, [NoCall EXCEPT !.op = "got_sigbus", !.f = f,
                                  !.path = "drain", !.queued = Len(queue)]
                   @@ [found |-> FALSE, pops |-> 0])

\* One iteration of the for (;;) of mmap_cache_process_sigbus: sigbus_pop
\* returns 0 and the second loop and the return follow, or it hands out
\* one address, whose file is marked (abort() when no window holds it).
DrainStep ==
    /\ Alive /\ InDrainLoop
    /\ IF queue = <<>>
       THEN With(IF last.found THEN InvalidateAll(Heap) ELSE Heap, LAMBDA H1 :
            Store(H1, [last EXCEPT
                         !.path = "none",
                         !.r = IF H1.files[last.f].sigbus THEN 1 ELSE 0]))
       ELSE With(DrainQueue([Heap EXCEPT !.queue = <<Head(queue)>>],
                            last.found, FALSE), LAMBDA d :
            Store([d.heap EXCEPT !.queue = Tail(queue)],
                  [last EXCEPT !.found = d.found, !.pops = @ + 1,
                               !.path = IF d.heap.aborted THEN "none"
                                        ELSE @]))

\* The SIGBUS handler between two calls
SigbusIdle(addr) == ~Busy /\ Sigbus(addr)

\* One iteration of mmap_try_harder, whatever mmap answers
RetryStepAny == RetryStep("enomem") \/ RetryStep("ok") \/ RetryStep("fail")

\* The calls of one reader (context 0) on the registered files, and the
\* faults of their windows and of foreign pages between the calls
NextLoop ==
    \/ \E fd \in Fds : AddFd(fd, PROT_READ, FALSE) /\ ~Busy
    \/ \E f \in HandleIds, q \in Requests :
          /\ StatsBelow(MaxMissedLoop, MaxHitsLoop)
          /\ GetHit(f, 0, FALSE, q[1], q[2])
    \/ \E f \in HandleIds, q \in Requests :
          /\ StatsBelow(MaxMissedLoop, MaxHitsLoop)
          /\ RetryEnter(f, 0, FALSE, q[1], q[2])
    \/ RetryStepAny
    \/ \E f \in HandleIds : DrainEnter(f)
    \/ DrainStep
    \/ \E addr \in FaultAddrs : SigbusIdle(addr)

\* A call that is inside one of the two loops goes on running: the thread
\* that made the call is scheduled again.
SpecLoop ==
    /\ Init /\ [][NextLoop]_vars
    /\ WF_vars(RetryStepAny)
    /\ WF_vars(DrainStep)

\* C31: a get inside the retry loop leaves it, and so does a drain inside
\* its loop; an iteration of the retry loop that does not return frees one
\* window of the unused list and lowers n_windows by one, so the loop goes
\* round at most as often as there were unused windows; an iteration of
\* the drain that does not return takes one address off the queue.
C31_LoopsTerminate ==
    /\ InRetryLoop ~> ~InRetryLoop
    /\ InDrainLoop ~> ~InDrainLoop
    /\ [](InRetryLoop \/ (last.op = "get" /\ last.path = "alloc")
             => /\ last.retries <= last.unused0
                /\ n_windows <= last.n_windows0 - last.retries + 1)
    /\ [](InDrainLoop => last.pops + Len(queue) = last.queued)
    /\ [][InRetryLoop /\ InRetryLoop'
             => /\ n_windows' = n_windows - 1
                /\ last_unused # NULL
                /\ Contains(unused, last_unused)
                /\ ~windows'[last_unused].live
                /\ unused' = LIST_REMOVE(unused, last_unused)
                /\ last'.retries = last.retries + 1]_vars
    /\ [][InRetryLoop /\ ~InRetryLoop' /\ last'.r = -ENOMEM
             => last_unused = NULL /\ Heap' = Heap]_vars
    /\ [][InDrainLoop /\ InDrainLoop'
             => queue # <<>> /\ queue' = Tail(queue)]_vars

\* With ENOMEM in every iteration the get has freed two unused windows and
\* returned -ENOMEM
C31_Witness ==
    /\ last.op = "get" /\ last.path = "alloc" /\ last.r = -ENOMEM
    /\ last.unused0 = 2 /\ last.retries = 2
    /\ n_windows = last.n_windows0 - 2

\* A drain has popped two addresses and returned
C31_DrainWitness ==
    /\ last.op = "got_sigbus" /\ last.path = "none"
    /\ last.queued = 2 /\ last.pops = 2 /\ queue = <<>> /\ ~aborted

----------------------------------------------------------------------------
(* The handles a drain leaves alone (SpecAll) *)

\* C32: a drain (in got_sigbus or in close) sets sigbus only on a handle
\* with a window that holds a queued address, and remaps only windows of
\* handles with sigbus set; a handle it does not poison keeps its record,
\* its windows and their mappings; and a get on a handle that is not
\* poisoned, for a range one of its windows covers, returns 1 from the
\* context or the list path without touching a mapping.
C32_PoisoningConfined ==
    [][/\ last'.op \in {"got_sigbus", "fd_free"}
          => /\ \A g \in HandleIds :
                   (files[g].live /\ ~files[g].sigbus /\ files'[g].live)
                      => IF files'[g].sigbus
                         THEN QueuedIn(g)
                         ELSE /\ files'[g] = files[g]
                              /\ \A w \in WindowsOf(g) :
                                    /\ windows'[w] = windows[w]
                                    /\ ~windows'[w].invalidated
                                    /\ mem'[RegionOf(windows[w].ptr)]
                                          = mem[RegionOf(windows[w].ptr)]
             /\ \A w \in WindowIds :
                   (windows'[w].live /\ windows'[w].invalidated
                       /\ ~windows[w].invalidated)
                      => /\ files'[windows[w].fd].sigbus
                         /\ windows'[w].fd = windows[w].fd
       /\ (/\ last'.op = "get"
           /\ ~files[last'.f].sigbus
           /\ \/ ContextHit(last'.f, last'.context, last'.offset, last'.size)
              \/ ListHit(last'.f, last'.offset, last'.size))
          => /\ last'.r = 1
             /\ last'.path \in {"context", "list"}
             /\ mem' = mem
             /\ files' = files
             /\ contexts'[last'.context].window \in WindowsOf(last'.f)
             /\ ~windows'[contexts'[last'.context].window].invalidated]_vars

\* A drain has poisoned one handle and left the other, with its window
\* still a mapping of the file
C32_Witness ==
    /\ ~aborted
    /\ last.op = "got_sigbus"
    /\ \E f, g \in HandleIds :
          /\ files[f].live /\ files[f].sigbus
          /\ \A w \in WindowsOf(f) : windows[w].invalidated
          /\ WindowsOf(f) # {}
          /\ files[g].live /\ ~files[g].sigbus
          /\ WindowsOf(g) # {}
          /\ \A w \in WindowsOf(g) :
                /\ ~windows[w].invalidated
                /\ mem[RegionOf(windows[w].ptr)].kind = "file"

\* With another handle poisoned, a get has hit a window of its own handle
C32_HitWitness ==
    /\ ~aborted
    /\ last.op = "get" /\ last.r = 1 /\ last.path \in {"context", "list"}
    /\ ~files[last.f].sigbus
    /\ \E g \in HandleIds \ {last.f} :
          /\ files[g].live /\ files[g].sigbus /\ WindowsOf(g) # {}

====
